---- MODULE Spec2Model ----
(***************************************************************************)
(* A model of psautohint/ufoFont.py: the processed-glyph hash map of       *)
(* UFOFontData (the incremental cache), the two glyph layers it reads and  *)
(* writes, and the operations convertToBez / updateFromBez / saveChanges / *)
(* close of one font object over the files of one UFO font.                *)
(*                                                                         *)
(* Modelling conventions                                                   *)
(*  - A glyph file is represented by the fingerprint that                  *)
(*    buildGlyphHashValue computes from it (advance width + outline).      *)
(*  - Glyph file names are glyphMap[g] in both layers; a processed-layer   *)
(*    file may exist without being listed in that layer's contents.plist   *)
(*    and may be listed without existing.                                  *)
(*  - Python's None is PyNone; an exception is recorded in ret.raised.     *)
(*  - ret is a history variable: the last operation, its arguments, what   *)
(*    it returned and the locals it read.                                  *)
(*  - stage is a history variable: "converted" (convertToBez returned the  *)
(*    glyph unskipped), "updated" (then updateFromBez), "saved" (then      *)
(*    saveChanges), "reopened" (then a new font object), as long as the    *)
(*    glyph's file in the default layer is not changed; else "none".       *)
(***************************************************************************)
EXTENDS Integers, Sequences, FiniteSets, TLC

\* ---------------------------------------------------------------- constants
kAutohintName == "autohint"
kCheckOutlineName == "checkOutlines"
kAdobHashMapVersionName == "hashMapVersion"
kAdobHashMapVersion == <<1, 0>>
kDefaultGlyphsLayer == "glyphs"
kProcessedGlyphsLayer == "glyphs.com.adobe.type.processedGlyphs"

PyNone == "None"
\* None where the other values are records
NoneObj == [none |-> TRUE]

\* ------------------------------------------------------------------- bounds
\* Longest tool history of an entry of the cache file the font starts with.
MaxHistLen == 2
\* The glyphs of the font (contents.plist of the default layer).
Glyphs == {"a", "z"}
\* The glyphs the tool is run on (its glyph list); the others are bystanders.
RunGlyphs == {"a"}
\* glyphMap: glyph name -> glyph file name (the same name in both layers).
glyphMap == [g \in Glyphs |-> g \o ".glif"]
FileNames == {glyphMap[g] : g \in Glyphs}
\* Fingerprints of glyph sources: advance 500, one contour of two line points.
Hashes == {"w500l00l90", "w500l00l80"}
\* Tool names that occur in histories.
Tools == {kAutohintName, kCheckOutlineName}
\* Python's order of the keys of the hash map, as sorted() compares them.
NameRank == ("a" :> 1) @@ (kAdobHashMapVersionName :> 2) @@ ("z" :> 3)

NoDup(s) == \A i, j \in DOMAIN s : i # j => s[i] # s[j]
Histories == {s \in UNION {[1..n -> Tools] : n \in 0..MaxHistLen} : NoDup(s)}

VARIABLES
  \* ---- the font's files
  hashFile,               \* data/com.adobe.type.processedHashMap
  defaultLayer,           \* glyphs/<file>: file name -> fingerprint of its content
  procFiles,              \* processed layer: the glyph files that exist
  procContents,           \* processed layer: contents.plist
  \* ---- the UFOFontData object
  useHashMap, useProcessedLayer, writeToDefaultLayer, requiredHistory,
  hashMap, hashMapChanged, deletedGlyph, processedLayerGlyphMap, newGlyphMap,
  \* ---- history variables
  ret,                    \* the last operation and its result
  stage                   \* per glyph of the run: how far its processing got

\* The pure functions of the module (the outline codec, the component
\* recursion, the hint lists, the transform) are run on inputs of their own:
\* the argument and the result of each call are variables.
VARIABLES
  \* ---- convertGlyphOutlineToBezString / convertBezToOutline
  outlineXML,             \* the <outline> given to the encoder, or None
  bezString,              \* the bez stream: the encoder's result, the decoder's input
  newOutline,             \* the decoder's result
  \* ---- component references (encoder and buildGlyphHashValue)
  glifOutlines,           \* the font's glyph files: glyph name -> <outline>
  srcGlyphName,           \* the glyph that is converted and hashed
  glyphHash,              \* the result of buildGlyphHashValue
  prevHash,               \* its result before the source was edited last
  lastEdit,               \* what the last edit of the source changed
  \* ---- HintMask.addHintSet
  curHintMask,            \* the hint mask that is serialized
  newHintSetDict,         \* the dict addHintSet appended to hintSetList
  \* ---- UFOTransform, down a chain of components
  curTransform,           \* the transform the current level inherited
  prevTransform,          \* the transform the level above inherited
  ownTransform,           \* the own transform of the component entered last
  nesting                 \* the current level

\* convertBezToOutline, run token by token on a stream that is read operator
\* by operator.
VARIABLES
  bezLocals,              \* the locals of convertBezToOutline in its loop
  bezRead,                \* the operators of the stream read so far
  bezReturned             \* what convertBezToOutline returned, or None

\* convertBezToGLIF, run on a glyph file and on what the decoder returned.
VARIABLES
  glifFile,               \* the children of the <glyph> element of the file
  glifXML                 \* the children of glifXML after convertBezToGLIF

disk == <<hashFile, defaultLayer, procFiles, procContents>>
config == <<useHashMap, useProcessedLayer, writeToDefaultLayer, requiredHistory>>
memory == <<hashMap, hashMapChanged, deletedGlyph, processedLayerGlyphMap, newGlyphMap>>
font == <<disk, config, memory, ret, stage>>
codec == <<outlineXML, bezString, newOutline>>
components == <<glifOutlines, srcGlyphName, glyphHash, prevHash, lastEdit>>
hinting == <<curHintMask, newHintSetDict>>
transforms == <<curTransform, prevTransform, ownTransform, nesting>>
decoding == <<bezLocals, bezRead, bezReturned>>
glif == <<glifFile, glifXML>>
pure == <<codec, components, hinting, transforms, decoding, glif>>
vars == <<font, pure>>

\* ------------------------------------------------------------ dictionaries
EmptyMap == [k \in {} |-> <<>>]
FreshMap == [k \in {kAdobHashMapVersionName} |-> kAdobHashMapVersion]
putEntry(m, k, v) == [x \in (DOMAIN m) \cup {k} |-> IF x = k THEN v ELSE m[x]]
inList(name, list) == \E i \in DOMAIN list : list[i] = name

NoFile == [exists |-> FALSE, lines |-> <<>>]
NoContents == [exists |-> FALSE, map |-> EmptyMap]

\* ------------------------------------------------------- the hash map file
\* sorted(hashMap.keys())
RECURSIVE sorted(_)
sorted(S) ==
  IF S = {} THEN <<>>
  ELSE LET m == CHOOSE x \in S : \A y \in S : NameRank[x] <= NameRank[y]
       IN <<m>> \o sorted(S \ {m})

\* The text written for a dictionary: one "'key': value," line per key, in
\* sorted key order.
formatLines(m) ==
  LET keys == sorted(DOMAIN m)
  IN [i \in DOMAIN keys |-> <<keys[i], m[keys[i]]>>]

\* ast.literal_eval of the text: the dictionary of its lines (of two lines
\* with one key the later wins).
literal_eval(lines) ==
  [k \in {lines[i][1] : i \in DOMAIN lines} |->
     lines[CHOOSE i \in DOMAIN lines :
             /\ lines[i][1] = k
             /\ \A j \in DOMAIN lines : lines[j][1] = k => j <= i][2]]

\* writeHashMap: the hash map file after the call.
writeHashMap ==
  IF Cardinality(DOMAIN hashMap) = 0 THEN hashFile
  ELSE [exists |-> TRUE, lines |-> formatLines(hashMap)]

\* Mutant: a file of an older major version is used as it is.
readHashMap_olderKept ==
  LET newMap == IF hashFile.exists THEN literal_eval(hashFile.lines) ELSE FreshMap
  IN IF kAdobHashMapVersionName \notin DOMAIN newMap
       THEN [raised |-> FALSE, hashMap |-> FreshMap]
     ELSE IF newMap[kAdobHashMapVersionName][1] > kAdobHashMapVersion[1]
       THEN [raised |-> TRUE, hashMap |-> hashMap]
     ELSE [raised |-> FALSE, hashMap |-> newMap]

\* readHashMap: whether it raised UFOParseError, and self.hashMap afterwards.
readHashMap ==
  LET newMap == IF hashFile.exists THEN literal_eval(hashFile.lines) ELSE FreshMap
  IN IF kAdobHashMapVersionName \notin DOMAIN newMap
       THEN [raised |-> FALSE, hashMap |-> FreshMap]
     ELSE IF newMap[kAdobHashMapVersionName][1] > kAdobHashMapVersion[1]
       THEN [raised |-> TRUE, hashMap |-> hashMap]
     ELSE IF newMap[kAdobHashMapVersionName][1] < kAdobHashMapVersion[1]
       THEN [raised |-> FALSE, hashMap |-> FreshMap]
     ELSE [raised |-> FALSE, hashMap |-> newMap]

\* ------------------------------------------------------ the processed layer
\* loadGlyphMap: processedLayerGlyphMap from the layer's contents.plist
\* (parsePList gives None for a plist without keys; {} when there is no file).
loadGlyphMap(contents) ==
  IF ~contents.exists THEN [isNone |-> FALSE, map |-> EmptyMap]
  ELSE IF DOMAIN contents.map = {} THEN [isNone |-> TRUE, map |-> EmptyMap]
  ELSE [isNone |-> FALSE, map |-> contents.map]

\* Python truth value of self.processedLayerGlyphMap
hasProcessedMap == ~processedLayerGlyphMap.isNone /\ DOMAIN processedLayerGlyphMap.map # {}

\* getGlyphProcessedPath: the file name in the processed layer, or None.
getGlyphProcessedPath(glyphName) ==
  IF hasProcessedMap /\ glyphName \in DOMAIN processedLayerGlyphMap.map
    THEN processedLayerGlyphMap.map[glyphName]
    ELSE PyNone

\* Mutant: the file is not removed.
removeIfExists_keeps(files, glyphPath) == files

\* "if glyphPath and os.path.exists(glyphPath): os.remove(glyphPath)":
\* the processed-layer files afterwards.
removeIfExists(files, glyphPath) ==
  IF glyphPath # PyNone /\ glyphPath \in files THEN files \ {glyphPath} ELSE files

\* ------------------------------------------------------------ checkSkipGlyph
\* historyList.index(kAutohintName), -1 when it raises ValueError
historyIndex(historyList, name) ==
  IF inList(name, historyList)
    THEN (CHOOSE i \in DOMAIN historyList :
            /\ historyList[i] = name
            /\ \A j \in DOMAIN historyList : historyList[j] = name => i <= j) - 1
    ELSE -1

\* The locals hashEntry / srcHash / historyList after the lookup.
lookupEntry(hm, glyphName) ==
  IF glyphName \in DOMAIN hm
    THEN [present |-> TRUE, srcHash |-> hm[glyphName][1], historyList |-> hm[glyphName][2]]
    ELSE [present |-> FALSE, srcHash |-> PyNone, historyList |-> <<>>]

\* Mutant: the forced run (doAll) is not honoured.
skipDecision_ignoresDoAll(programHistoryIndex, doAll) ==
  programHistoryIndex >= 0

\* skip = True and (not doAll), when the program is in the history
skipDecision(programHistoryIndex, doAll) ==
  IF programHistoryIndex >= 0 THEN ~doAll ELSE FALSE

\* Mutant: the program is not recorded in the new history.
resetEntry_emptyHistory(hm, glyphName, newSrcHash) ==
  putEntry(hm, glyphName, <<newSrcHash, <<>>>>)

\* Mutant: the earlier history is kept and the program appended to it.
resetEntry_keepsHistory(hm, glyphName, newSrcHash) ==
  putEntry(hm, glyphName,
           <<newSrcHash,
             (IF glyphName \in DOMAIN hm THEN hm[glyphName][2] ELSE <<>>)
               \o <<kAutohintName>>>>)

\* self.hashMap[glyphName] = [newSrcHash, [kAutohintName]]
resetEntry(hm, glyphName, newSrcHash) ==
  putEntry(hm, glyphName, <<newSrcHash, <<kAutohintName>>>>)

\* Mutant: the program is appended to a copy of the list, not to the entry's.
appendHistory_toCopy(hm, glyphName) == hm

\* Mutant: the program is inserted at the front of the history.
appendHistory_atFront(hm, glyphName) ==
  putEntry(hm, glyphName, <<hm[glyphName][1], <<kAutohintName>> \o hm[glyphName][2]>>)

\* historyList.append(kAutohintName): the list is the one inside the entry
appendHistory(hm, glyphName) ==
  putEntry(hm, glyphName, <<hm[glyphName][1], Append(hm[glyphName][2], kAutohintName)>>)

\* Mutant: any non-empty history counts as a match.
foundMatch_anyHistory(historyList) == Len(historyList) > 0

\* foundMatch: some program of requiredHistory is in a non-empty historyList
foundMatch(historyList) ==
  /\ Len(historyList) > 0
  /\ \E i \in DOMAIN requiredHistory : inList(requiredHistory[i], historyList)

\* The branch srcHash == newSrcHash.
sameHashCase(hm, glyphName, newSrcHash, doAll, programHistoryIndex) ==
  LET skip == skipDecision(programHistoryIndex, doAll)
  IN IF skip
       THEN [skip |-> TRUE, error |-> FALSE, hashMap |-> hm,
             hashMapChanged |-> hashMapChanged, deletedGlyph |-> deletedGlyph,
             procFiles |-> procFiles]
     ELSE IF ~useProcessedLayer
       THEN [skip |-> FALSE, error |-> FALSE,
             hashMap |-> resetEntry(hm, glyphName, newSrcHash),
             hashMapChanged |-> TRUE, deletedGlyph |-> deletedGlyph,
             procFiles |-> removeIfExists(procFiles, getGlyphProcessedPath(glyphName))]
     ELSE [skip |-> FALSE, error |-> FALSE,
           hashMap |-> IF programHistoryIndex < 0 THEN appendHistory(hm, glyphName) ELSE hm,
           hashMapChanged |-> hashMapChanged, deletedGlyph |-> deletedGlyph,
           procFiles |-> procFiles]

\* The branch srcHash != newSrcHash.
changedHashCase(hm, glyphName, newSrcHash, historyList) ==
  LET error == useProcessedLayer /\ foundMatch(historyList)
      glyphPath == getGlyphProcessedPath(glyphName)
  IN [skip |-> error, error |-> error,
      hashMap |-> resetEntry(hm, glyphName, newSrcHash),
      hashMapChanged |-> TRUE,
      deletedGlyph |-> IF glyphPath # PyNone /\ glyphPath \in procFiles
                         THEN TRUE ELSE deletedGlyph,
      procFiles |-> removeIfExists(procFiles, glyphPath)]

\* checkSkipGlyph(glyphName, newSrcHash, doAll): what it returns (skip), whether
\* it raised, whether it logged the required-program error, the locals it read
\* (pre) and the fields and files afterwards.
checkSkipGlyph(glyphName, newSrcHash, doAll) ==
  LET same == [skip |-> FALSE, error |-> FALSE, hashMap |-> hashMap,
               hashMapChanged |-> hashMapChanged, deletedGlyph |-> deletedGlyph,
               procFiles |-> procFiles]
      none == lookupEntry(EmptyMap, glyphName)
  IN IF ~useHashMap
       THEN same @@ [raised |-> FALSE, pre |-> none]
     ELSE
       LET rd == IF Cardinality(DOMAIN hashMap) = 0 THEN readHashMap
                 ELSE [raised |-> FALSE, hashMap |-> hashMap]
       IN IF rd.raised
            THEN same @@ [raised |-> TRUE, pre |-> none]
          ELSE
            LET hm == rd.hashMap
                pre == lookupEntry(hm, glyphName)
                programHistoryIndex == historyIndex(pre.historyList, kAutohintName)
                res == IF pre.srcHash = newSrcHash
                         THEN sameHashCase(hm, glyphName, newSrcHash, doAll,
                                           programHistoryIndex)
                         ELSE changedHashCase(hm, glyphName, newSrcHash, pre.historyList)
            IN res @@ [raised |-> FALSE, pre |-> pre]

\* Mutant: the useHashMap guard is missing.
updateHashEntry_noGuard(glyphName, changed) ==
  IF glyphName \notin DOMAIN hashMap
    THEN [raised |-> TRUE, hashMap |-> hashMap, hashMapChanged |-> hashMapChanged]
  ELSE [raised |-> FALSE, hashMapChanged |-> TRUE,
        hashMap |-> IF ~useProcessedLayer /\ changed
                      THEN resetEntry(hashMap, glyphName, hashMap[glyphName][1])
                    ELSE IF ~inList(kAutohintName, hashMap[glyphName][2])
                      THEN appendHistory(hashMap, glyphName)
                    ELSE hashMap]

\* Mutant: the fingerprint of the glyph's last processed output is stored.
updateHashEntry_storesOutputHash(glyphName, changed) ==
  IF ~useHashMap \/ glyphName \notin DOMAIN hashMap
    THEN [raised |-> useHashMap, hashMap |-> hashMap, hashMapChanged |-> hashMapChanged]
  ELSE [raised |-> FALSE, hashMapChanged |-> TRUE,
        hashMap |-> resetEntry(hashMap, glyphName,
                               IF glyphName \in DOMAIN newGlyphMap
                                 THEN newGlyphMap[glyphName]
                                 ELSE hashMap[glyphName][1])]

\* Mutant: hashMapChanged is not set.
updateHashEntry_notMarked(glyphName, changed) ==
  IF ~useHashMap \/ glyphName \notin DOMAIN hashMap
    THEN [raised |-> useHashMap, hashMap |-> hashMap, hashMapChanged |-> hashMapChanged]
  ELSE [raised |-> FALSE, hashMapChanged |-> hashMapChanged,
        hashMap |-> IF ~useProcessedLayer /\ changed
                      THEN resetEntry(hashMap, glyphName, hashMap[glyphName][1])
                    ELSE IF ~inList(kAutohintName, hashMap[glyphName][2])
                      THEN appendHistory(hashMap, glyphName)
                    ELSE hashMap]

\* ---------------------------------------------------------- updateHashEntry
\* updateHashEntry(glyphName, changed): whether it raised KeyError, and the
\* fields afterwards.
updateHashEntry(glyphName, changed) ==
  IF ~useHashMap
    THEN [raised |-> FALSE, hashMap |-> hashMap, hashMapChanged |-> hashMapChanged]
  ELSE IF glyphName \notin DOMAIN hashMap
    THEN [raised |-> TRUE, hashMap |-> hashMap, hashMapChanged |-> hashMapChanged]
  ELSE [raised |-> FALSE, hashMapChanged |-> TRUE,
        hashMap |-> IF ~useProcessedLayer /\ changed
                      THEN resetEntry(hashMap, glyphName, hashMap[glyphName][1])
                    ELSE IF ~inList(kAutohintName, hashMap[glyphName][2])
                      THEN appendHistory(hashMap, glyphName)
                    ELSE hashMap]

\* --------------------------------------------------------- getOrSkipGlyphXML
\* The fingerprint buildGlyphHashValue computes from the glyph's file in the
\* default layer (useDefaultGlyphDir = True).
defaultLayerHash(glyphName) == defaultLayer[glyphMap[glyphName]]

\* The layer whose outline getOrSkipGlyphXML returns, given the processed
\* files left by checkSkipGlyph.
outlineLayer(glyphName, files) ==
  LET glyphFileName ==
        IF glyphName \in DOMAIN processedLayerGlyphMap.map
          THEN processedLayerGlyphMap.map[glyphName]
          ELSE glyphMap[glyphName]
  IN IF useProcessedLayer /\ hasProcessedMap /\ glyphFileName \in files
       THEN kProcessedGlyphsLayer
       ELSE kDefaultGlyphsLayer

\* getOrSkipGlyphXML(glyphName, doAll): checkSkipGlyph on the default layer's
\* fingerprint, then the choice of the layer to read the outline from.
getOrSkipGlyphXML(glyphName, doAll) ==
  LET newHash == defaultLayerHash(glyphName)
      chk == checkSkipGlyph(glyphName, newHash, doAll)
  IN chk @@ [newSrcHash |-> newHash,
             layer |-> IF chk.raised THEN PyNone
                       ELSE outlineLayer(glyphName, chk.procFiles)]

\* ------------------------------------------------------------------ actions
RetNone ==
  [op |-> "none", glyphName |-> PyNone, doAll |-> FALSE, newSrcHash |-> PyNone,
   skip |-> FALSE, raised |-> PyNone, error |-> FALSE, repeat |-> FALSE,
   wrote |-> FALSE, layer |-> PyNone, pre |-> lookupEntry(EmptyMap, PyNone)]

\* Whether the last operation was this very call of convertToBez, returned.
isRepeat(glyphName, newSrcHash, doAll) ==
  /\ ret.op = "convertToBez"
  /\ ret.raised = PyNone
  /\ ret.glyphName = glyphName
  /\ ret.newSrcHash = newSrcHash
  /\ ret.doAll = doAll

\* stage after the glyph's file in the default layer became newLayer[...]
sourceKept(newLayer, g) == newLayer[glyphMap[g]] = defaultLayer[glyphMap[g]]

\* convertToBez(glyphName, removeHints, doAll) -> convertGLIFToBez ->
\* getOrSkipGlyphXML -> checkSkipGlyph.
convertToBez(glyphName, doAll) ==
  LET r == getOrSkipGlyphXML(glyphName, doAll)
  IN /\ hashMap' = r.hashMap
     /\ hashMapChanged' = r.hashMapChanged
     /\ deletedGlyph' = r.deletedGlyph
     /\ procFiles' = r.procFiles
     /\ ret' = [RetNone EXCEPT
                  !.op = "convertToBez", !.glyphName = glyphName, !.doAll = doAll,
                  !.newSrcHash = r.newSrcHash, !.skip = r.skip,
                  !.raised = IF r.raised THEN "UFOParseError" ELSE PyNone,
                  !.error = r.error, !.pre = r.pre, !.layer = r.layer,
                  !.repeat = isRepeat(glyphName, r.newSrcHash, doAll)]
     /\ stage' = IF ~r.raised /\ ~r.skip
                   THEN [stage EXCEPT ![glyphName] = "converted"]
                   ELSE stage
     /\ UNCHANGED pure
     /\ UNCHANGED <<hashFile, defaultLayer, procContents, config,
                    processedLayerGlyphMap, newGlyphMap>>

\* updateFromBez(bezData, glyphName, width) -> convertBezToGLIF ->
\* updateHashEntry(glyphName, changed=True).  newHash is the fingerprint of the
\* outline decoded from the engine's bez output.
updateFromBez(glyphName, newHash) ==
  LET u == updateHashEntry(glyphName, TRUE)
  IN /\ hashMap' = u.hashMap
     /\ hashMapChanged' = u.hashMapChanged
     /\ newGlyphMap' = IF u.raised THEN newGlyphMap
                       ELSE putEntry(newGlyphMap, glyphName, newHash)
     /\ ret' = [RetNone EXCEPT
                  !.op = "updateFromBez", !.glyphName = glyphName,
                  !.newSrcHash = newHash,
                  !.raised = IF u.raised THEN "KeyError" ELSE PyNone,
                  !.pre = lookupEntry(hashMap, glyphName)]
     /\ stage' = IF ~u.raised /\ stage[glyphName] = "converted"
                   THEN [stage EXCEPT ![glyphName] = "updated"]
                   ELSE stage
     /\ UNCHANGED pure
     /\ UNCHANGED <<disk, config, deletedGlyph, processedLayerGlyphMap>>

\* getWriteGlyphPath raises TypeError on "glyphName in None".
writePathRaises == ~writeToDefaultLayer /\ processedLayerGlyphMap.isNone

\* getWriteGlyphPath: the file name under glyphWriteDir.
getWriteGlyphPath(glyphName) ==
  IF ~writeToDefaultLayer /\ glyphName \in DOMAIN processedLayerGlyphMap.map
    THEN processedLayerGlyphMap.map[glyphName]
    ELSE glyphMap[glyphName]

\* updateLayerGlyphContents: contents.plist of the processed layer afterwards.
updateLayerGlyphContents(contents, newGlyphData) ==
  [exists |-> TRUE,
   map |-> [g \in (DOMAIN contents.map) \cup (DOMAIN newGlyphData) |->
              IF g \in DOMAIN newGlyphData
                THEN IF useProcessedLayer /\ hasProcessedMap
                          /\ g \in DOMAIN processedLayerGlyphMap.map
                       THEN processedLayerGlyphMap.map[g]
                       ELSE glyphMap[g]
                ELSE contents.map[g]]]

\* Mutant: no glyph file is written to the default layer.
writeDefaultLayer_nothing == defaultLayer

\* The default layer after the glyph files of newGlyphMap were written to it.
writeDefaultLayer ==
  [f \in FileNames |->
     IF \E g \in DOMAIN newGlyphMap : getWriteGlyphPath(g) = f
       THEN newGlyphMap[CHOOSE g \in DOMAIN newGlyphMap : getWriteGlyphPath(g) = f]
       ELSE defaultLayer[f]]

\* Mutant: the hash map file is written after the glyph files.
saveChanges_cacheLast(ioFails) ==
  LET failed == DOMAIN newGlyphMap # {} /\ (writePathRaises \/ ioFails)
      newLayer == IF ~failed /\ writeToDefaultLayer THEN writeDefaultLayer
                  ELSE defaultLayer
  IN /\ hashFile' = IF hashMapChanged /\ ~failed THEN writeHashMap ELSE hashFile
     /\ hashMapChanged' = (hashMapChanged /\ failed)
     /\ defaultLayer' = newLayer
     /\ IF failed \/ writeToDefaultLayer
          THEN UNCHANGED <<procFiles, procContents>>
          ELSE /\ procFiles' = procFiles
                                 \cup {getWriteGlyphPath(g) : g \in DOMAIN newGlyphMap}
               /\ procContents' = updateLayerGlyphContents(procContents, newGlyphMap)
     /\ ret' = [RetNone EXCEPT
                  !.op = "saveChanges",
                  !.raised = IF ~failed THEN PyNone
                             ELSE IF writePathRaises THEN "TypeError"
                             ELSE "OSError",
                  !.wrote = hashMapChanged /\ ~failed /\ Cardinality(DOMAIN hashMap) # 0]
     /\ stage' = [g \in RunGlyphs |->
                    IF ~sourceKept(newLayer, g) THEN "none"
                    ELSE IF ~failed /\ stage[g] = "updated" THEN "saved"
                    ELSE stage[g]]
     /\ UNCHANGED pure
     /\ UNCHANGED <<config, hashMap, deletedGlyph, processedLayerGlyphMap,
                    newGlyphMap>>

\* saveChanges.  ioFails: open(glyphPath, "wb") of the glyph file raises
\* OSError (the file system refuses the write); getWriteGlyphPath runs before
\* it, so its TypeError comes first.
saveChanges(ioFails) ==
  LET failed == DOMAIN newGlyphMap # {} /\ (writePathRaises \/ ioFails)
      newLayer == IF ~failed /\ writeToDefaultLayer THEN writeDefaultLayer
                  ELSE defaultLayer
  IN /\ hashFile' = IF hashMapChanged THEN writeHashMap ELSE hashFile
     /\ hashMapChanged' = FALSE
     /\ defaultLayer' = newLayer
     /\ IF failed \/ writeToDefaultLayer
          THEN UNCHANGED <<procFiles, procContents>>
          ELSE /\ procFiles' = procFiles
                                 \cup {getWriteGlyphPath(g) : g \in DOMAIN newGlyphMap}
               /\ procContents' = updateLayerGlyphContents(procContents, newGlyphMap)
     /\ ret' = [RetNone EXCEPT
                  !.op = "saveChanges",
                  !.raised = IF ~failed THEN PyNone
                             ELSE IF writePathRaises THEN "TypeError"
                             ELSE "OSError",
                  !.wrote = hashMapChanged /\ Cardinality(DOMAIN hashMap) # 0]
     /\ stage' = [g \in RunGlyphs |->
                    IF ~sourceKept(newLayer, g) THEN "none"
                    ELSE IF ~failed /\ stage[g] = "updated" THEN "saved"
                    ELSE stage[g]]
     /\ UNCHANGED pure
     /\ UNCHANGED <<config, hashMap, deletedGlyph, processedLayerGlyphMap,
                    newGlyphMap>>

\* close
close ==
  /\ hashMapChanged
  /\ hashFile' = writeHashMap
  /\ hashMapChanged' = FALSE
  /\ ret' = [RetNone EXCEPT !.op = "close",
                            !.wrote = Cardinality(DOMAIN hashMap) # 0]
  /\ UNCHANGED pure
  /\ UNCHANGED <<defaultLayer, procFiles, procContents, config, hashMap,
                 deletedGlyph, processedLayerGlyphMap, newGlyphMap, stage>>

\* The options a font object is constructed and set up with: the constructor's
\* useHashMap and write_to_default_layer (setWriteToDefault), and the caller's
\* setting of useProcessedLayer and requiredHistory.
\* setWriteToDefault (glyphWriteDir follows writeToDefaultLayer)
setWriteToDefault(self) ==
  [self EXCEPT !.useProcessedLayer = FALSE, !.writeToDefaultLayer = TRUE]

\* The option fields when __init__ returns.
newFontData(hashMapArg, write_to_default_layer) ==
  LET self == [useHashMap |-> hashMapArg, useProcessedLayer |-> FALSE,
               writeToDefaultLayer |-> FALSE, requiredHistory |-> <<>>]
  IN IF write_to_default_layer THEN setWriteToDefault(self) ELSE self

Configs ==
  {c \in {[newFontData(hm, wtd) EXCEPT
             !.useProcessedLayer = @ \/ upl, !.requiredHistory = rh] :
            hm \in BOOLEAN, wtd \in BOOLEAN, upl \in BOOLEAN,
            rh \in {<<>>, <<kCheckOutlineName>>}} :
     (~c.useProcessedLayer \/ ~c.useHashMap) => c.requiredHistory = <<>>}

\* UFOFontData.__init__ on the font's files: a new font object with the same
\* options as the last one.
newSession ==
  /\ hashMap' = EmptyMap
  /\ hashMapChanged' = FALSE
  /\ deletedGlyph' = FALSE
  /\ newGlyphMap' = EmptyMap
  /\ processedLayerGlyphMap' = loadGlyphMap(procContents)
  /\ ret' = RetNone
  /\ stage' = [g \in RunGlyphs |->
                 IF stage[g] \in {"saved", "reopened"} THEN "reopened" ELSE "none"]
  /\ UNCHANGED pure
  /\ UNCHANGED <<disk, config>>

\* The user edits the glyph's file in the default layer.
editSource(glyphName, newHash) ==
  /\ defaultLayer[glyphMap[glyphName]] # newHash
  /\ defaultLayer' = [defaultLayer EXCEPT ![glyphMap[glyphName]] = newHash]
  /\ stage' = [stage EXCEPT ![glyphName] = "none"]
  /\ UNCHANGED pure
  /\ UNCHANGED <<hashFile, procFiles, procContents, config, memory, ret>>

\* ------------------------------------------------------------ initial state
\* The font's files when the first font object is constructed: a hash map file
\* left by earlier runs of autohint and checkOutlines (or none, or one of
\* another version, or one without version), and a processed layer left by them.
InitEntries == {<<h, l>> : h \in Hashes, l \in Histories}
InitHash == "w500l00l90"

initLines(version, hasA, entryA, hasZ, entryZ) ==
  formatLines((IF version = <<>> THEN EmptyMap
               ELSE [k \in {kAdobHashMapVersionName} |-> version])
              @@ (IF hasA THEN [k \in {"a"} |-> entryA] ELSE EmptyMap)
              @@ (IF hasZ THEN [k \in {"z"} |-> entryZ] ELSE EmptyMap))

InitHashFile ==
  \/ hashFile = NoFile
  \/ \E hasA \in BOOLEAN, entryA \in InitEntries :
       /\ ~hasA => entryA = <<InitHash, <<>>>>
       /\ hashFile = [exists |-> TRUE,
                      lines |-> initLines(kAdobHashMapVersion, hasA, entryA, TRUE,
                                          <<InitHash, <<kCheckOutlineName>>>>)]
  \/ \E version \in {<<0, 9>>, <<2, 0>>, <<>>} :
       hashFile = [exists |-> TRUE,
                   lines |-> initLines(version, TRUE, <<InitHash, <<kAutohintName>>>>,
                                       FALSE, <<>>)]

InitProcessedLayer ==
  \E listed \in SUBSET Glyphs, exists \in BOOLEAN :
    \E files \in SUBSET {glyphMap[g] : g \in listed \cap RunGlyphs} :
      /\ listed # {} => exists
      /\ procFiles = files
      /\ procContents = IF exists
                          THEN [exists |-> TRUE, map |-> [g \in listed |-> glyphMap[g]]]
                          ELSE NoContents

\* No call of the outline codec is under way.
CodecIdle == outlineXML = PyNone /\ bezString = NoneObj /\ newOutline = NoneObj

\* No glyph with components is being converted.
ComponentsIdle ==
  /\ glifOutlines = EmptyMap /\ srcGlyphName = PyNone /\ glyphHash = NoneObj
  /\ prevHash = NoneObj /\ lastEdit = <<>>

\* No hint mask is being serialized.
HintsIdle == curHintMask = NoneObj /\ newHintSetDict = NoneObj

\* No component is being entered.
TransformsIdle ==
  /\ curTransform = NoneObj /\ prevTransform = NoneObj
  /\ ownTransform = NoneObj /\ nesting = 0

DecodingIdle == bezLocals = NoneObj /\ bezRead = <<>> /\ bezReturned = NoneObj

GlifIdle == glifFile = <<>> /\ glifXML = NoneObj

PureIdle ==
  CodecIdle /\ ComponentsIdle /\ HintsIdle /\ TransformsIdle /\ DecodingIdle /\ GlifIdle

Init ==
  /\ PureIdle
  /\ InitHashFile
  /\ InitProcessedLayer
  /\ defaultLayer = [f \in FileNames |-> InitHash]
  /\ \E c \in Configs :
       /\ useHashMap = c.useHashMap
       /\ useProcessedLayer = c.useProcessedLayer
       /\ writeToDefaultLayer = c.writeToDefaultLayer
       /\ requiredHistory = c.requiredHistory
  /\ hashMap = EmptyMap
  /\ hashMapChanged = FALSE
  /\ deletedGlyph = FALSE
  /\ newGlyphMap = EmptyMap
  /\ processedLayerGlyphMap = loadGlyphMap(procContents)
  /\ ret = RetNone
  /\ stage = [g \in RunGlyphs |-> "none"]

Next ==
  \/ \E g \in RunGlyphs, doAll \in BOOLEAN : convertToBez(g, doAll)
  \/ \E g \in RunGlyphs, h \in Hashes : updateFromBez(g, h)
  \/ \E ioFails \in BOOLEAN : saveChanges(ioFails)
  \/ close
  \/ newSession
  \/ \E g \in RunGlyphs, h \in Hashes : editSource(g, h)

Spec == Init /\ [][Next]_vars

\* ============================================================== UFOTransform
\* A transform is its transformFactors (xScale, xyScale, yxScale, yScale,
\* xOffset, yOffset) and the flags isDefault and isOffsetOnly.  Coefficients
\* are integers here.
kTransformTagList == <<"xScale", "xyScale", "yxScale", "yScale", "xOffset", "yOffset">>

\* UFOTransform.__init__(componentXML): attrib maps the transform tags that
\* the <component> element has to their values.
UFOTransform(attrib) ==
  LET val(i) == IF kTransformTagList[i] \in DOMAIN attrib
                  THEN attrib[kTransformTagList[i]]
                  ELSE IF i \in {1, 4} THEN 1 ELSE 0
      hasScale == val(1) # 1 \/ val(4) # 1 \/ val(2) # 0 \/ val(3) # 0
      hasOffset == val(5) # 0 \/ val(6) # 0
  IN [transformFactors |-> [i \in 1..6 |-> val(i)],
      isDefault |-> ~(hasScale \/ hasOffset),
      isOffsetOnly |-> ~hasScale]

\* Mutant: the general branch multiplies in the other order (parent first).
concat_parentFirst(self, transform) ==
  IF transform = NoneObj THEN self
  ELSE IF transform.isDefault THEN self
  ELSE LET tfPrev == self.transformFactors
           tfCur == transform.transformFactors
       IN IF transform.isOffsetOnly
            THEN [self EXCEPT !.transformFactors[5] = @ + tfCur[5],
                              !.transformFactors[6] = @ + tfCur[6],
                              !.isDefault = FALSE]
          ELSE [transformFactors |->
                  <<tfCur[1] * tfPrev[1] + tfCur[2] * tfPrev[3],
                    tfCur[1] * tfPrev[2] + tfCur[2] * tfPrev[4],
                    tfCur[3] * tfPrev[1] + tfCur[4] * tfPrev[3],
                    tfCur[3] * tfPrev[2] + tfCur[4] * tfPrev[4],
                    tfCur[5] * tfPrev[1] + tfCur[6] * tfPrev[3] + tfPrev[5],
                    tfCur[5] * tfPrev[2] + tfCur[6] * tfPrev[4] + tfPrev[6]>>,
                isOffsetOnly |-> self.isOffsetOnly /\ transform.isOffsetOnly,
                isDefault |-> FALSE]

\* Mutant: the general branch keeps the flag of self.
concat_keepsFlag(self, transform) ==
  IF transform = NoneObj THEN self
  ELSE IF transform.isDefault THEN self
  ELSE LET tfCur == self.transformFactors
           tfPrev == transform.transformFactors
       IN IF transform.isOffsetOnly
            THEN [self EXCEPT !.transformFactors[5] = @ + tfPrev[5],
                              !.transformFactors[6] = @ + tfPrev[6],
                              !.isDefault = FALSE]
          ELSE [transformFactors |->
                  <<tfCur[1] * tfPrev[1] + tfCur[2] * tfPrev[3],
                    tfCur[1] * tfPrev[2] + tfCur[2] * tfPrev[4],
                    tfCur[3] * tfPrev[1] + tfCur[4] * tfPrev[3],
                    tfCur[3] * tfPrev[2] + tfCur[4] * tfPrev[4],
                    tfCur[5] * tfPrev[1] + tfCur[6] * tfPrev[3] + tfPrev[5],
                    tfCur[5] * tfPrev[2] + tfCur[6] * tfPrev[4] + tfPrev[6]>>,
                isOffsetOnly |-> self.isOffsetOnly,
                isDefault |-> FALSE]

\* UFOTransform.concat(transform): self afterwards.
concat(self, transform) ==
  IF transform = NoneObj THEN self
  ELSE IF transform.isDefault THEN self
  ELSE LET tfCur == self.transformFactors
           tfPrev == transform.transformFactors
       IN IF transform.isOffsetOnly
            THEN [self EXCEPT !.transformFactors[5] = @ + tfPrev[5],
                              !.transformFactors[6] = @ + tfPrev[6],
                              !.isDefault = FALSE]
          ELSE [transformFactors |->
                  <<tfCur[1] * tfPrev[1] + tfCur[2] * tfPrev[3],
                    tfCur[1] * tfPrev[2] + tfCur[2] * tfPrev[4],
                    tfCur[3] * tfPrev[1] + tfCur[4] * tfPrev[3],
                    tfCur[3] * tfPrev[2] + tfCur[4] * tfPrev[4],
                    tfCur[5] * tfPrev[1] + tfCur[6] * tfPrev[3] + tfPrev[5],
                    tfCur[5] * tfPrev[2] + tfCur[6] * tfPrev[4] + tfPrev[6]>>,
                isOffsetOnly |-> self.isOffsetOnly /\ transform.isOffsetOnly,
                isDefault |-> FALSE]

\* UFOTransform.apply(x, y)
apply(self, x, y) ==
  LET tfCur == self.transformFactors
  IN IF self.isOffsetOnly
       THEN <<x + tfCur[5], y + tfCur[6]>>
     ELSE <<x * tfCur[1] + y * tfCur[3] + tfCur[5],
            x * tfCur[2] + y * tfCur[4] + tfCur[6]>>

\* ===================================================== the outline codec
\* An <outline> is a sequence of items: [tag |-> "contour", points |-> ...] or
\* [tag |-> "component", base |-> glyph name, attrib |-> transform tags].
\* A point is [x, y, type]; type "offcurve" is a point without type attribute.
\* Coordinates are integers and allowDecimalCoords is off: int(round(x)) keeps
\* them, "%s" writes them as decimal digits and float() reads them back.
\* A bez string is its sequence of whitespace-separated tokens (re.findall of
\* \S+): <<"num", value>> for a number, <<"op", operator>> otherwise.
Contour(points) == [tag |-> "contour", points |-> points]
Component(base, attrib) == [tag |-> "component", base |-> base, attrib |-> attrib]
Point(xy, type) == [x |-> xy[1], y |-> xy[2], type |-> type]

\* "%s %s mt" % (x, y) and the like: the tokens of one operator
bezOp(args, op) == [i \in 1..Len(args) |-> <<"num", args[i]>>] \o << <<"op", op>> >>

\* The point's coordinates as written: transformed, then rounded.
pointCoords(p, transform) ==
  IF transform = NoneObj THEN <<p.x, p.y>> ELSE apply(transform, p.x, p.y)

Raise(why) == [raised |-> "UFOParseError", why |-> why, toks |-> <<>>]
Return(toks) == [raised |-> PyNone, why |-> "", toks |-> toks]

\* Mutant: a curve point accepts a buffer of more than 4 coordinates.
RECURSIVE encodePoints_atLeast4(_, _, _, _)
encodePoints_atLeast4(outlineItem, argStack, transform, bezStringList) ==
  IF outlineItem = <<>> THEN Return(bezStringList)
  ELSE
    LET contourItem == Head(outlineItem)
        xy == pointCoords(contourItem, transform)
        point_type == contourItem.type
    IN IF point_type = "offcurve"
         THEN encodePoints_atLeast4(Tail(outlineItem), argStack \o xy, transform, bezStringList)
       ELSE IF point_type = "move"
         THEN encodePoints_atLeast4(Tail(outlineItem), <<>>, transform,
                           bezStringList \o bezOp(xy, "mt"))
       ELSE IF point_type = "line"
         THEN encodePoints_atLeast4(Tail(outlineItem), <<>>, transform,
                           bezStringList \o bezOp(xy, "dt"))
       ELSE IF point_type = "curve"
         THEN IF Len(argStack) < 4
                THEN Raise("Argument stack error seen for curve point")
              ELSE encodePoints_atLeast4(Tail(outlineItem), <<>>, transform,
                                bezStringList \o bezOp(argStack \o xy, "ct"))
       ELSE IF point_type = "qccurve"
         THEN Raise("Point type not supported")
       ELSE Raise("Unknown Point type not supported")

\* The loop "for contourItem in outlineItem" of the encoder.
RECURSIVE encodePoints(_, _, _, _)
encodePoints(outlineItem, argStack, transform, bezStringList) ==
  IF outlineItem = <<>> THEN Return(bezStringList)
  ELSE
    LET contourItem == Head(outlineItem)
        xy == pointCoords(contourItem, transform)
        point_type == contourItem.type
    IN IF point_type = "offcurve"
         THEN encodePoints(Tail(outlineItem), argStack \o xy, transform, bezStringList)
       ELSE IF point_type = "move"
         THEN encodePoints(Tail(outlineItem), <<>>, transform,
                           bezStringList \o bezOp(xy, "mt"))
       ELSE IF point_type = "line"
         THEN encodePoints(Tail(outlineItem), <<>>, transform,
                           bezStringList \o bezOp(xy, "dt"))
       ELSE IF point_type = "curve"
         THEN IF Len(argStack) # 4
                THEN Raise("Argument stack error seen for curve point")
              ELSE encodePoints(Tail(outlineItem), <<>>, transform,
                                bezStringList \o bezOp(argStack \o xy, "ct"))
       ELSE IF point_type = "qccurve"
         THEN Raise("Point type not supported")
       ELSE Raise("Unknown Point type not supported")

\* Mutant: a first point of kind line is also moved to the end.
encodeContour_rotatesLine(points, transform) ==
  IF Len(points) = 0 THEN Return(<<>>)
  ELSE
    LET lastItem == points[1]
        point_type == lastItem.type
        curLastItem == points[Len(points)]
        cp == << <<"op", "cp">> >>
        body(head, rest) ==
          LET r == encodePoints(rest, <<>>, transform, head)
          IN IF r.raised # PyNone THEN r ELSE Return(r.toks \o cp)
    IN IF point_type \in {"curve", "line", "qccurve"}
         THEN body(bezOp(pointCoords(lastItem, transform), "mt"),
                   Append(Tail(points), lastItem))
       ELSE IF point_type = "move"
         THEN IF Len(points) = 1 THEN Return(<<>>) ELSE body(<<>>, points)
       ELSE IF point_type = "offcurve"
         THEN IF curLastItem.type = "offcurve"
                THEN Raise("Unhandled case for first and last points in outline")
              ELSE IF curLastItem.type = "line"
                THEN body(bezOp(pointCoords(curLastItem, transform), "mt"),
                          SubSeq(points, 1, Len(points) - 1))
              ELSE IF curLastItem.type = "curve"
                THEN body(bezOp(pointCoords(curLastItem, transform), "mt"), points)
              ELSE body(<<>>, points)
       ELSE Raise("Unhandled case for first point in outline")

\* One <contour> of the encoder: the move-to set up from the first point (or
\* from the last, when the first is off-curve), the loop over the points and
\* the closing "cp".
encodeContour(points, transform) ==
  IF Len(points) = 0 THEN Return(<<>>)
  ELSE
    LET lastItem == points[1]
        point_type == lastItem.type
        curLastItem == points[Len(points)]
        cp == << <<"op", "cp">> >>
        body(head, rest) ==
          LET r == encodePoints(rest, <<>>, transform, head)
          IN IF r.raised # PyNone THEN r ELSE Return(r.toks \o cp)
    IN IF point_type \in {"curve", "line", "qccurve"}
         THEN body(bezOp(pointCoords(lastItem, transform), "mt"),
                   IF point_type # "line" THEN Append(Tail(points), lastItem)
                   ELSE Tail(points))
       ELSE IF point_type = "move"
         THEN IF Len(points) = 1 THEN Return(<<>>) ELSE body(<<>>, points)
       ELSE IF point_type = "offcurve"
         THEN IF curLastItem.type = "offcurve"
                THEN Raise("Unhandled case for first and last points in outline")
              ELSE IF curLastItem.type = "line"
                THEN body(bezOp(pointCoords(curLastItem, transform), "mt"),
                          SubSeq(points, 1, Len(points) - 1))
              ELSE IF curLastItem.type = "curve"
                THEN body(bezOp(pointCoords(curLastItem, transform), "mt"), points)
              ELSE body(<<>>, points)
       ELSE Raise("Unhandled case for first point in outline")

\* if componentOutline: an Element without children is false, and so is None
isTrue(outline) == IF outline = PyNone THEN FALSE ELSE Len(outline) > 0

\* The level of component reference beyond which the encoder and the hash
\* builder raise ("if level > 10").
kMaxLevel == 10

\* Mutant: the level check lets one more level through.
levelExceeded_off(level) == level > kMaxLevel + 1

levelExceeded(level) == level > kMaxLevel

\* The transform handed down to a component's outline.
componentTransform(attrib, transform) ==
  LET newTransform == UFOTransform(attrib)
  IN IF newTransform.isDefault
       THEN IF transform # NoneObj THEN concat(newTransform, transform) ELSE NoneObj
     ELSE IF transform # NoneObj THEN concat(newTransform, transform)
     ELSE newTransform

\* convertGlyphOutlineToBezString(outlineXML, ufoFontData, transform, level):
\* glifs stands for ufoFontData: glyph name -> the <outline> of its glyph file
\* (None when the file has none); getComponentOutline raises for a name
\* outside it.
RECURSIVE convertGlyphOutlineToBezString(_, _, _, _)
RECURSIVE encodeItems(_, _, _, _, _)
encodeItems(items, glifs, transform, level, bezStringList) ==
  IF items = <<>> THEN Return(bezStringList)
  ELSE
    LET outlineItem == Head(items)
    IN IF outlineItem.tag = "component"
         THEN IF outlineItem.base \notin DOMAIN glifs
                THEN Raise("component glyph is missing from contents.plist")
              ELSE
                LET componentOutline == glifs[outlineItem.base]
                    sub == convertGlyphOutlineToBezString(
                             componentOutline, glifs,
                             componentTransform(outlineItem.attrib, transform),
                             level + 1)
                IN IF ~isTrue(componentOutline)
                     THEN encodeItems(Tail(items), glifs, transform, level, bezStringList)
                   ELSE IF sub.raised # PyNone THEN sub
                   ELSE encodeItems(Tail(items), glifs, transform, level,
                                    bezStringList \o sub.toks)
       ELSE IF outlineItem.tag # "contour"
         THEN encodeItems(Tail(items), glifs, transform, level, bezStringList)
       ELSE
         LET c == encodeContour(outlineItem.points, transform)
         IN IF c.raised # PyNone THEN c
            ELSE encodeItems(Tail(items), glifs, transform, level,
                             bezStringList \o c.toks)

\* Mutant: beyond the level cap the component is left out without error.
convertGlyphOutlineToBezString_truncates(outline, glifs, transform, level) ==
  IF levelExceeded(level) THEN Return(<<>>)
  ELSE IF outline = PyNone THEN Return(<<>>)
  ELSE encodeItems(outline, glifs, transform, level, <<>>)

convertGlyphOutlineToBezString(outline, glifs, transform, level) ==
  IF levelExceeded(level)
    THEN Raise("In parsing component, exceeded 10 levels of reference")
  ELSE IF outline = PyNone THEN Return(<<>>)
  ELSE encodeItems(outline, glifs, transform, level, <<>>)

\* ------------------------------------------------------- convertBezToOutline
kBaseFlexName == "flexCurve"

\* HintMask(listPos): pointName is "hintSet" + str(listPos).zfill(4)
HintMask(listPos) ==
  [listPos |-> listPos, hList |-> <<>>, vList |-> <<>>,
   hstem3List |-> <<>>, vstem3List |-> <<>>,
   pointName |-> <<"hintSet", listPos>>]

\* A point name is the pair of its prefix and its number ("hintSet0001" is
\* <<"hintSet", 1>>); None, for no name, is the empty tuple.
NoName == <<>>

\* A <point> of the decoded outline; name is None without name attribute.
NewPoint(x, y, type) == [x |-> x, y |-> y, type |-> type, name |-> NoName]

\* The locals of convertBezToOutline before its loop over the tokens.  The
\* current hintMask is the last of hintMaskList; outlineItem, when not None
\* (open), is the last contour of newOutline.
bezStart ==
  [raised |-> PyNone, argList |-> <<>>, opList |-> <<>>, opIndex |-> 0,
   curX |-> 0, curY |-> 0, contours |-> <<>>, open |-> FALSE,
   newHintMaskName |-> NoName, inPreFlex |-> FALSE, seenHints |-> FALSE,
   hintMaskList |-> <<HintMask(0)>>, vStem3Args |-> <<>>, hStem3Args |-> <<>>,
   flexList |-> <<>>]

bezRaise(st, exc) == [st EXCEPT !.raised = exc]

\* Mutant: the start point is never compared with the end of the last operator.
fixStartPoint_neverClosed(outlineItem, opList) ==
  [outlineItem EXCEPT ![1].type = "line"]

\* Mutant: the first point always takes the kind of the last operator.
fixStartPoint_retagsAlways(outlineItem, opList) ==
  LET first == opList[1]
      last == opList[Len(opList)]
  IN IF first[2] = last[2] /\ first[3] = last[3]
       THEN [SubSeq(outlineItem, 1, Len(outlineItem) - 1) EXCEPT ![1].type = last[1]]
     ELSE [outlineItem EXCEPT ![1].type = last[1]]

\* Mutant: the closing point is kept when the last operator ends at the start.
fixStartPoint_keepsLast(outlineItem, opList) ==
  LET first == opList[1]
      last == opList[Len(opList)]
  IN IF first[2] = last[2] /\ first[3] = last[3]
       THEN [outlineItem EXCEPT ![1].type = last[1]]
     ELSE [outlineItem EXCEPT ![1].type = "line"]

\* fixStartPoint(outlineItem, opList): the contour afterwards
fixStartPoint(outlineItem, opList) ==
  LET first == opList[1]
      last == opList[Len(opList)]
  IN IF first[2] = last[2] /\ first[3] = last[3]
       THEN [SubSeq(outlineItem, 1, Len(outlineItem) - 1) EXCEPT ![1].type = last[1]]
     ELSE [outlineItem EXCEPT ![1].type = "line"]

\* Mutant: the start point of a closed contour is left as it is.
closeContour_leavesStart(contours, opList) ==
  LET n == Len(contours)
  IN IF Len(contours[n]) = 1 THEN SubSeq(contours, 1, n - 1)
     ELSE contours

\* What a following move-to, or the end of the stream, does to the open
\* contour: it is deleted when it holds one point, else its start is fixed.
closeContour(contours, opList) ==
  LET n == Len(contours)
  IN IF Len(contours[n]) = 1 THEN SubSeq(contours, 1, n - 1)
     ELSE [contours EXCEPT ![n] = fixStartPoint(contours[n], opList)]

\* outlineItem.append(newPoint)
appendPoints(st, pts) ==
  [st.contours EXCEPT ![Len(st.contours)] = @ \o pts]

\* The point that takes the pending hint mask name, if any.
named(st, pt) == [pt EXCEPT !.name = st.newHintMaskName]

\* The current hint mask changed by f
lastMask(st) == st.hintMaskList[Len(st.hintMaskList)]
withMask(st, m) == [st.hintMaskList EXCEPT ![Len(st.hintMaskList)] = m]

\* Tokens "mt", "rmt", "dt"
bezMoveLine(st, token) ==
  IF Len(st.argList) < 2 THEN bezRaise(st, "IndexError")
  ELSE
    LET x == IF token = "rmt" THEN st.curX + st.argList[1] ELSE st.argList[1]
        y == IF token = "rmt" THEN st.curY + st.argList[2] ELSE st.argList[2]
        opName == IF token = "dt" THEN "line" ELSE "move"
        closed == IF st.open THEN closeContour(st.contours, st.opList)
                  ELSE st.contours
        pt == named(st, NewPoint(x, y, opName))
    IN IF opName = "move"
         THEN [st EXCEPT !.opIndex = @ + 1, !.curX = x, !.curY = y,
                         !.contours = Append(closed, <<pt>>), !.open = TRUE,
                         !.opList = << <<opName, x, y>> >>,
                         !.newHintMaskName = NoName, !.argList = <<>>]
       ELSE IF ~st.open THEN bezRaise(st, "AttributeError")
       ELSE [st EXCEPT !.opIndex = @ + 1, !.curX = x, !.curY = y,
                       !.contours = appendPoints(st, <<pt>>),
                       !.opList = Append(@, <<opName, x, y>>),
                       !.newHintMaskName = NoName, !.argList = <<>>]

\* Token "ct"
bezCurve(st) ==
  IF Len(st.argList) < 2 THEN bezRaise(st, "IndexError")
  ELSE IF ~st.open THEN bezRaise(st, "AttributeError")
  ELSE IF Len(st.argList) < 6 THEN bezRaise(st, "IndexError")
  ELSE
    LET a == st.argList
    IN [st EXCEPT !.opIndex = @ + 1, !.curX = a[5], !.curY = a[6],
                  !.contours = appendPoints(st,
                     <<named(st, NewPoint(a[1], a[2], "offcurve")),
                       NewPoint(a[3], a[4], "offcurve"),
                       NewPoint(a[5], a[6], "curve")>>),
                  !.opList = Append(@, <<"curve", a[5], a[6]>>),
                  !.newHintMaskName = NoName, !.argList = <<>>]

\* Mutant: the flex leaves the pending hint mask name in place.
bezFlex_keepsPending(st) ==
  IF Len(st.argList) < 2 THEN bezRaise(st, "IndexError")
  ELSE IF ~st.open THEN bezRaise(st, "AttributeError")
  ELSE IF Len(st.argList) < 12 THEN bezRaise(st, "IndexError")
  ELSE
    LET a == st.argList
        flexPointName == <<kBaseFlexName, st.opIndex>>
        m == lastMask(st)
    IN [st EXCEPT !.inPreFlex = FALSE,
                  !.flexList = Append(@, flexPointName),
                  !.opIndex = @ + 2, !.curX = a[11], !.curY = a[12],
                  !.contours = appendPoints(st,
                     <<[NewPoint(a[1], a[2], "offcurve") EXCEPT !.name = flexPointName],
                       NewPoint(a[3], a[4], "offcurve"),
                       NewPoint(a[5], a[6], "curve"),
                       NewPoint(a[7], a[8], "offcurve"),
                       NewPoint(a[9], a[10], "offcurve"),
                       NewPoint(a[11], a[12], "curve")>>),
                  !.opList = @ \o << <<"curve", a[5], a[6]>>, <<"curve", a[11], a[12]>> >>,
                  !.hintMaskList = IF st.newHintMaskName # NoName
                                     THEN withMask(st, [m EXCEPT !.pointName = flexPointName])
                                     ELSE @,
                  !.argList = <<>>]

\* Token "flxa": the two curves of a flex, the first point named after it.
bezFlex(st) ==
  IF Len(st.argList) < 2 THEN bezRaise(st, "IndexError")
  ELSE IF ~st.open THEN bezRaise(st, "AttributeError")
  ELSE IF Len(st.argList) < 12 THEN bezRaise(st, "IndexError")
  ELSE
    LET a == st.argList
        flexPointName == <<kBaseFlexName, st.opIndex>>
        m == lastMask(st)
    IN [st EXCEPT !.inPreFlex = FALSE,
                  !.flexList = Append(@, flexPointName),
                  !.opIndex = @ + 2, !.curX = a[11], !.curY = a[12],
                  !.contours = appendPoints(st,
                     <<[NewPoint(a[1], a[2], "offcurve") EXCEPT !.name = flexPointName],
                       NewPoint(a[3], a[4], "offcurve"),
                       NewPoint(a[5], a[6], "curve"),
                       NewPoint(a[7], a[8], "offcurve"),
                       NewPoint(a[9], a[10], "offcurve"),
                       NewPoint(a[11], a[12], "curve")>>),
                  !.opList = @ \o << <<"curve", a[5], a[6]>>, <<"curve", a[11], a[12]>> >>,
                  !.hintMaskList = IF st.newHintMaskName # NoName
                                     THEN withMask(st, [m EXCEPT !.pointName = flexPointName])
                                     ELSE @,
                  !.newHintMaskName = NoName, !.argList = <<>>]

\* Mutant: a new hint mask is appended also before the first operator.
bezHint_alwaysAppends(st, token) ==
  LET m == lastMask(st)
      pending == IF st.newHintMaskName = NoName THEN m.pointName
                 ELSE st.newHintMaskName
  IN IF token = "snc"
       THEN [st EXCEPT !.hintMaskList = Append(@, HintMask(st.opIndex)),
                       !.newHintMaskName = HintMask(st.opIndex).pointName]
     ELSE IF token = "rb"
       THEN [st EXCEPT !.newHintMaskName = pending,
                       !.hintMaskList = withMask(st, [m EXCEPT !.hList = Append(@, st.argList)]),
                       !.argList = <<>>, !.seenHints = TRUE]
     ELSE IF token = "ry"
       THEN [st EXCEPT !.newHintMaskName = pending,
                       !.hintMaskList = withMask(st, [m EXCEPT !.vList = Append(@, st.argList)]),
                       !.argList = <<>>, !.seenHints = TRUE]
     ELSE IF token = "rm"
       THEN LET args == Append(st.vStem3Args, st.argList)
            IN [st EXCEPT !.newHintMaskName = pending, !.seenHints = TRUE,
                          !.argList = <<>>,
                          !.vStem3Args = IF Len(args) = 3 THEN <<>> ELSE args,
                          !.hintMaskList =
                             IF Len(args) = 3
                               THEN withMask(st, [m EXCEPT !.vstem3List = Append(@, args)])
                               ELSE @]
     ELSE \* "rv"
       LET args == Append(st.hStem3Args, st.argList)
       IN [st EXCEPT !.seenHints = TRUE, !.argList = <<>>,
                     !.hStem3Args = IF Len(args) = 3 THEN <<>> ELSE args,
                     !.hintMaskList =
                        IF Len(args) = 3
                          THEN withMask(st, [m EXCEPT !.hstem3List = Append(@, args)])
                          ELSE @]

\* Mutant: a counter hint is closed after two pairs.
bezHint_pairsOfTwo(st, token) ==
  LET m == lastMask(st)
      pending == IF st.newHintMaskName = NoName THEN m.pointName
                 ELSE st.newHintMaskName
  IN IF token = "snc"
       THEN [st EXCEPT !.hintMaskList = IF st.opIndex = 0
                                          THEN <<HintMask(st.opIndex)>>
                                          ELSE Append(@, HintMask(st.opIndex)),
                       !.newHintMaskName = HintMask(st.opIndex).pointName]
     ELSE IF token = "rb"
       THEN [st EXCEPT !.newHintMaskName = pending,
                       !.hintMaskList = withMask(st, [m EXCEPT !.hList = Append(@, st.argList)]),
                       !.argList = <<>>, !.seenHints = TRUE]
     ELSE IF token = "ry"
       THEN [st EXCEPT !.newHintMaskName = pending,
                       !.hintMaskList = withMask(st, [m EXCEPT !.vList = Append(@, st.argList)]),
                       !.argList = <<>>, !.seenHints = TRUE]
     ELSE IF token = "rm"
       THEN LET args == Append(st.vStem3Args, st.argList)
            IN [st EXCEPT !.newHintMaskName = pending, !.seenHints = TRUE,
                          !.argList = <<>>,
                          !.vStem3Args = IF Len(args) = 2 THEN <<>> ELSE args,
                          !.hintMaskList =
                             IF Len(args) = 2
                               THEN withMask(st, [m EXCEPT !.vstem3List = Append(@, args)])
                               ELSE @]
     ELSE \* "rv"
       LET args == Append(st.hStem3Args, st.argList)
       IN [st EXCEPT !.seenHints = TRUE, !.argList = <<>>,
                     !.hStem3Args = IF Len(args) = 2 THEN <<>> ELSE args,
                     !.hintMaskList =
                        IF Len(args) = 2
                          THEN withMask(st, [m EXCEPT !.hstem3List = Append(@, args)])
                          ELSE @]

\* Tokens "snc", "rb", "ry", "rm", "rv": the hints of the current mask
bezHint(st, token) ==
  LET m == lastMask(st)
      pending == IF st.newHintMaskName = NoName THEN m.pointName
                 ELSE st.newHintMaskName
  IN IF token = "snc"
       THEN [st EXCEPT !.hintMaskList = IF st.opIndex = 0
                                          THEN <<HintMask(st.opIndex)>>
                                          ELSE Append(@, HintMask(st.opIndex)),
                       !.newHintMaskName = HintMask(st.opIndex).pointName]
     ELSE IF token = "rb"
       THEN [st EXCEPT !.newHintMaskName = pending,
                       !.hintMaskList = withMask(st, [m EXCEPT !.hList = Append(@, st.argList)]),
                       !.argList = <<>>, !.seenHints = TRUE]
     ELSE IF token = "ry"
       THEN [st EXCEPT !.newHintMaskName = pending,
                       !.hintMaskList = withMask(st, [m EXCEPT !.vList = Append(@, st.argList)]),
                       !.argList = <<>>, !.seenHints = TRUE]
     ELSE IF token = "rm"
       THEN LET args == Append(st.vStem3Args, st.argList)
            IN [st EXCEPT !.newHintMaskName = pending, !.seenHints = TRUE,
                          !.argList = <<>>,
                          !.vStem3Args = IF Len(args) = 3 THEN <<>> ELSE args,
                          !.hintMaskList =
                             IF Len(args) = 3
                               THEN withMask(st, [m EXCEPT !.vstem3List = Append(@, args)])
                               ELSE @]
     ELSE \* "rv"
       LET args == Append(st.hStem3Args, st.argList)
       IN [st EXCEPT !.seenHints = TRUE, !.argList = <<>>,
                     !.hStem3Args = IF Len(args) = 3 THEN <<>> ELSE args,
                     !.hintMaskList =
                        IF Len(args) = 3
                          THEN withMask(st, [m EXCEPT !.hstem3List = Append(@, args)])
                          ELSE @]

\* Token "div": the last two arguments are replaced by their quotient (kept
\* here when it is an integer; other quotients are outside the model).
bezDiv(st) ==
  LET n == Len(st.argList)
  IN IF n < 2 THEN bezRaise(st, "IndexError")
     ELSE IF st.argList[n] = 0 THEN bezRaise(st, "ZeroDivisionError")
     ELSE [st EXCEPT !.argList = Append(SubSeq(@, 1, n - 2), @[n - 1] \div @[n])]

\* Mutant: a token that is no operator is passed over.
bezToken_skipsUnknown(st, tok) ==
  IF tok[1] = "num" THEN [st EXCEPT !.argList = Append(@, tok[2])]
  ELSE
    LET token == tok[2]
    IN IF token \in {"newcolors", "beginsubr", "endsubr", "enc", "sc", "cp", "ed"}
         THEN st
       ELSE IF token \in {"snc", "rb", "ry", "rm", "rv"} THEN bezHint(st, token)
       ELSE IF token = "div" THEN bezDiv(st)
       ELSE IF token = "preflx1" THEN [st EXCEPT !.argList = <<>>, !.inPreFlex = TRUE]
       ELSE IF token = "preflx2a" THEN [st EXCEPT !.argList = <<>>]
       ELSE IF token = "flxa" THEN bezFlex(st)
       ELSE IF st.inPreFlex /\ token \in {"rmt", "mt"} THEN st
       ELSE IF token \in {"rmt", "mt", "dt"} THEN bezMoveLine(st, token)
       ELSE IF token = "ct" THEN bezCurve(st)
       ELSE st

\* One token of the loop "for token in bezList".
bezToken(st, tok) ==
  IF tok[1] = "num" THEN [st EXCEPT !.argList = Append(@, tok[2])]
  ELSE
    LET token == tok[2]
    IN IF token \in {"newcolors", "beginsubr", "endsubr", "enc", "sc", "cp", "ed"}
         THEN st
       ELSE IF token \in {"snc", "rb", "ry", "rm", "rv"} THEN bezHint(st, token)
       ELSE IF token = "div" THEN bezDiv(st)
       ELSE IF token = "preflx1" THEN [st EXCEPT !.argList = <<>>, !.inPreFlex = TRUE]
       ELSE IF token = "preflx2a" THEN [st EXCEPT !.argList = <<>>]
       ELSE IF token = "flxa" THEN bezFlex(st)
       ELSE IF st.inPreFlex /\ token \in {"rmt", "mt"} THEN st
       ELSE IF token \in {"rmt", "mt", "dt"} THEN bezMoveLine(st, token)
       ELSE IF token = "ct" THEN bezCurve(st)
       ELSE bezRaise(st, "BezParseError")

RECURSIVE bezLoop(_, _)
bezLoop(st, bezList) ==
  IF bezList = <<>> \/ st.raised # PyNone THEN st
  ELSE bezLoop(bezToken(st, Head(bezList)), Tail(bezList))

\* convertBezToOutline(ufoFontData, glyphName, bezString): the exception it
\* raised, if any, the contours of newOutline and what the hint record is
\* built from.  (For a string without tokens it returns "", None, None.)
convertBezToOutline(bezList) ==
  LET st == bezLoop(bezStart, bezList)
  IN IF bezList = <<>>
       THEN [raised |-> PyNone, empty |-> TRUE, contours |-> <<>>,
             seenHints |-> FALSE, hintMaskList |-> <<>>, flexList |-> <<>>]
     ELSE [raised |-> st.raised, empty |-> FALSE,
           contours |-> IF st.raised # PyNone THEN <<>>
                        ELSE IF st.open THEN closeContour(st.contours, st.opList)
                        ELSE st.contours,
           seenHints |-> st.seenHints, hintMaskList |-> st.hintMaskList,
           flexList |-> st.flexList]

\* ------------------------------------------------------ buildGlyphHashValue
\* A string is the sequence of its characters.  str(n): the decimal digits of
\* an integer, as "%s" and str(int(value)) write it.
RECURSIVE str(_)
str(n) ==
  IF n < 0 THEN <<"-">> \o str(0 - n)
  ELSE IF n < 10 THEN <<<<"0", "1", "2", "3", "4", "5", "6", "7", "8", "9">>[n + 1]>>
  ELSE str(n \div 10) \o str(n % 10)

\* Mutant: the data is digested from 129 characters on.
glyphHashOf_from129(dataList) ==
  LET RECURSIVE join(_)
      join(l) == IF l = <<>> THEN <<>> ELSE Head(l) \o join(Tail(l))
      data == join(dataList)
  IN IF Len(data) <= 128 THEN [digest |-> FALSE, text |-> data]
     ELSE [digest |-> TRUE, text |-> data]

\* data = "".join(dataList); the hash is data when it has fewer than 128
\* characters, else hashlib.sha512(data).hexdigest(): [digest |-> TRUE,
\* text |-> data] stands for the digest of data, 128 hexadecimal digits,
\* taken to differ for different data.
glyphHashOf(dataList) ==
  LET RECURSIVE join(_)
      join(l) == IF l = <<>> THEN <<>> ELSE Head(l) \o join(Tail(l))
      data == join(dataList)
  IN IF Len(data) < 128 THEN [digest |-> FALSE, text |-> data]
     ELSE [digest |-> TRUE, text |-> data]

\* Mutant: no contour is skipped.
skipContour_never(points) == FALSE

\* if len(childContour) < 2: continue
skipContour(points) == Len(points) < 2

\* buildGlyphHashValue(width, outlineXML, glyphName, useDefaultGlyphDir,
\* level): glyph_hash and dataList, or the exception.  dataList holds
\* "w<width>", one string per point of the contours of at least 2 points
\* (first letter of the type, x, y, nothing between them), and per component
\* "base:<name>", the values of its transform attributes and the data list of
\* its glyph (which starts with "w<width>" again).  The x and y attributes
\* are the decimal digits of integers here.  items is what is left of the
\* outline, dataList what was collected so far.
RECURSIVE buildGlyphHashValue(_, _, _, _, _)
buildGlyphHashValue(width, items, glifs, level, dataList) ==
  LET raise(why) == [raised |-> "UFOParseError", why |-> why, dataList |-> <<>>,
                     glyph_hash |-> NoneObj]
      child == Head(items)
      pointData(points) ==
        [i \in 1..Len(points) |->
           (CASE points[i].type = "move" -> <<"m">>
              [] points[i].type = "line" -> <<"l">>
              [] points[i].type = "curve" -> <<"c">>
              [] points[i].type = "qcurve" -> <<"q">>
              [] OTHER -> <<>>)
             \o str(points[i].x) \o str(points[i].y)]
      transformData(attrib) ==
        LET tags == SelectSeq(kTransformTagList, LAMBDA t : t \in DOMAIN attrib)
        IN [i \in 1..Len(tags) |-> str(attrib[tags[i]])]
  IN IF levelExceeded(level)
       THEN raise("In parsing component, exceeded 10 levels of reference")
     ELSE IF ~isTrue(items)
       THEN [raised |-> PyNone, why |-> "", dataList |-> dataList,
             glyph_hash |-> glyphHashOf(dataList)]
     ELSE IF child.tag = "contour"
       THEN buildGlyphHashValue(width, Tail(items), glifs, level,
              IF skipContour(child.points) THEN dataList
              ELSE dataList \o pointData(child.points))
     ELSE IF child.tag = "component"
       THEN IF child.base \notin DOMAIN glifs
              THEN raise("component glyph is missing from contents.plist")
            ELSE
              LET sub == buildGlyphHashValue(width, glifs[child.base], glifs, level + 1,
                                             << <<"w">> \o str(width) >>)
              IN IF sub.raised # PyNone THEN sub
                 ELSE buildGlyphHashValue(width, Tail(items), glifs, level,
                        dataList \o << <<"b", "a", "s", "e", ":">> \o str(child.base) >>
                          \o transformData(child.attrib) \o sub.dataList)
     ELSE buildGlyphHashValue(width, Tail(items), glifs, level, dataList)

\* ------------------------------------------- the codec run on bounded inputs
\* Longest contour given to the encoder, and longest stream of operators given
\* to the decoder.
MaxPoints == 4
MaxOps == 4

PointKinds == {"move", "line", "curve", "offcurve", "qcurve"}

\* The coordinates of the i-th point of an input contour: the corners of a
\* square, or the coordinates of the first point again.
coordAt(i) ==
  <<(IF i % 4 \in {2, 3} THEN 10 ELSE 0) + 20 * ((i - 1) \div 4),
    IF i % 4 \in {3, 0} THEN 10 ELSE 0>>

InputContours(maxLen) ==
  {[i \in 1..n |-> Point(IF first[i] THEN coordAt(1) ELSE coordAt(i), k[i])] :
     n \in 0..maxLen, k \in [1..maxLen -> PointKinds],
     first \in [1..maxLen -> BOOLEAN]}

\* A triangle of lines, away from the coordinates of the input contours.
Triangle ==
  Contour(<<Point(<<50, 50>>, "line"), Point(<<60, 50>>, "line"),
            Point(<<60, 60>>, "line")>>)

InputOutlines(contours) ==
  {IF shape = "before" THEN <<Triangle, Contour(c)>>
   ELSE IF shape = "after" THEN <<Contour(c), Triangle>>
   ELSE <<Contour(c)>> :
     c \in contours, shape \in {"alone", "before", "after"}}

\* The operators of an input stream, each with its arguments; "closepath" is
\* not an operator of bez.
InputOps ==
  {bezOp(xy, op) : xy \in {<<0, 0>>, <<10, 0>>}, op \in {"mt", "dt"}}
    \cup {bezOp(<<10, 0>>, "rmt"), bezOp(<<>>, "cp"), bezOp(<<>>, "closepath")}
    \cup {bezOp(<<10, 0, 10, 10>> \o xy, "ct") : xy \in {<<0, 0>>, <<0, 10>>}}

RECURSIVE flatten(_)
flatten(ss) == IF ss = <<>> THEN <<>> ELSE Head(ss) \o flatten(Tail(ss))

InputStreams(maxOps) ==
  {flatten(ops) : ops \in UNION {[1..n -> InputOps] : n \in 0..maxOps}}

\* The font object while the pure functions are run: nothing of it is used.
FontIdle ==
  /\ hashFile = NoFile
  /\ defaultLayer = [f \in FileNames |-> InitHash]
  /\ procFiles = {}
  /\ procContents = NoContents
  /\ useHashMap = FALSE /\ useProcessedLayer = FALSE /\ writeToDefaultLayer = FALSE
  /\ requiredHistory = <<>>
  /\ hashMap = EmptyMap /\ hashMapChanged = FALSE /\ deletedGlyph = FALSE
  /\ newGlyphMap = EmptyMap
  /\ processedLayerGlyphMap = loadGlyphMap(NoContents)
  /\ ret = RetNone
  /\ stage = [g \in RunGlyphs |-> "none"]

\* An outline to encode and then decode, or a stream to decode.
CodecInit ==
  /\ FontIdle /\ DecodingIdle /\ GlifIdle /\ ComponentsIdle /\ HintsIdle /\ TransformsIdle
  /\ newOutline = NoneObj
  /\ \/ outlineXML \in InputOutlines(InputContours(MaxPoints)) /\ bezString = NoneObj
     \/ outlineXML = PyNone /\ bezString \in {Return(s) : s \in InputStreams(MaxOps)}

\* bezString = convertGlyphOutlineToBezString(outlineXML, ufoFontData)
Encode ==
  /\ outlineXML # PyNone /\ bezString = NoneObj
  /\ bezString' = convertGlyphOutlineToBezString(outlineXML, glifOutlines, NoneObj, 0)
  /\ UNCHANGED <<font, decoding, glif, components, hinting, transforms, outlineXML, newOutline>>

\* newOutline = convertBezToOutline(ufoFontData, glyphName, bezString)
Decode ==
  /\ bezString # NoneObj /\ bezString.raised = PyNone /\ newOutline = NoneObj
  /\ newOutline' = convertBezToOutline(bezString.toks)
  /\ UNCHANGED <<font, decoding, glif, components, hinting, transforms, outlineXML, bezString>>

CodecNext == Encode \/ Decode

CodecSpec == CodecInit /\ [][CodecNext]_vars

\* ------------------------------------------------- HintMask.addHintSet
\* A hint is the argList of its operator, <<pos, width>>; a stem3 hint is the
\* three argLists of its operators.  An entry of the stems array is
\* [op, args]: the operator name and the numbers that follow it in the
\* string.
kStackLimit == 46

\* list.sort(): ascending by Python's order of lists, entry by entry: hints
\* by pos, then by width; stem3 hints (of three pairs each) by the numbers of
\* their pairs in turn.  Entries that compare equal keep their order.
pySorted(list, nested) ==
  LET key(e) == IF nested THEN e[1] \o e[2] \o e[3] ELSE e
      less(a, b) ==
        \/ \E i \in 1..Len(a) :
             /\ i <= Len(b) /\ a[i] < b[i]
             /\ \A j \in 1..(i - 1) : a[j] = b[j]
        \/ Len(a) < Len(b) /\ \A j \in 1..Len(a) : a[j] = b[j]
      RECURSIVE insertAll(_)
      insertAll(n) ==
        IF n = 0 THEN <<>>
        ELSE LET front == insertAll(n - 1)
                 k == Cardinality({i \in 1..Len(front) :
                                     ~less(key(list[n]), key(front[i]))})
             IN SubSeq(front, 1, k) \o <<list[n]>> \o SubSeq(front, k + 1, Len(front))
  IN insertAll(Len(list))

\* makeStemHintList(hintsStem3, stemList, isH): one string for all of them
makeStemHintList(hintsStem3, isH) ==
  LET RECURSIVE posList(_)
      posList(l) == IF l = <<>> THEN <<>>
                    ELSE Head(l)[1] \o Head(l)[2] \o Head(l)[3] \o posList(Tail(l))
  IN << [op |-> IF isH THEN "hstem3" ELSE "vstem3", args |-> posList(hintsStem3)] >>

\* makeHintList(hints, newHintSetArray, isH): one string per non-empty hint
makeHintList(hints, isH) ==
  LET kept == SelectSeq(hints, LAMBDA hint : hint # <<>>)
  IN [i \in 1..Len(kept) |->
        [op |-> IF isH THEN "hstem" ELSE "vstem", args |-> <<kept[i][1], kept[i][2]>>]]

\* Mutant: the plain group is written when there is one.
addHintList_plainFirst(hints, hintsStem3, isH) ==
  LET hintLimit == (kStackLimit - 2) \div 2
      cut(l) == IF Len(l) >= hintLimit THEN SubSeq(l, 1, hintLimit) ELSE l
  IN IF Len(hints) = 0 /\ Len(hintsStem3) > 0
       THEN LET sorted3 == pySorted(hintsStem3, TRUE)
            IN [hints |-> hints, hintsStem3 |-> sorted3,
                stems |-> makeStemHintList(cut(sorted3), isH)]
     ELSE LET sorted2 == pySorted(hints, FALSE)
          IN [hints |-> sorted2, hintsStem3 |-> hintsStem3,
              stems |-> makeHintList(cut(sorted2), isH)]

\* addHintList(hints, hintsStem3, newHintSetArray, isH): the two lists
\* afterwards (the one that is written is sorted in place; the cut is made
\* on a copy) and the entries appended to newHintSetArray.
addHintList(hints, hintsStem3, isH) ==
  LET hintLimit == (kStackLimit - 2) \div 2
      cut(l) == IF Len(l) >= hintLimit THEN SubSeq(l, 1, hintLimit) ELSE l
  IN IF Len(hintsStem3) > 0
       THEN LET sorted3 == pySorted(hintsStem3, TRUE)
            IN [hints |-> hints, hintsStem3 |-> sorted3,
                stems |-> makeStemHintList(cut(sorted3), isH)]
     ELSE LET sorted2 == pySorted(hints, FALSE)
          IN [hints |-> sorted2, hintsStem3 |-> hintsStem3,
              stems |-> makeHintList(cut(sorted2), isH)]

\* HintMask.addHintSet(hintSetList): the mask afterwards and the dict that
\* is appended to hintSetList (pointTag and stems).  Both conditions test
\* vstem3List.
addHintSet(self) ==
  LET none(hints, hintsStem3) ==
        [hints |-> hints, hintsStem3 |-> hintsStem3, stems |-> <<>>]
      h == IF Len(self.hList) > 0 \/ Len(self.vstem3List) # 0
             THEN addHintList(self.hList, self.hstem3List, TRUE)
           ELSE none(self.hList, self.hstem3List)
      v == IF Len(self.vList) > 0 \/ Len(self.vstem3List) # 0
             THEN addHintList(self.vList, self.vstem3List, FALSE)
           ELSE none(self.vList, self.vstem3List)
  IN [self |-> [self EXCEPT !.hList = h.hints, !.hstem3List = h.hintsStem3,
                            !.vList = v.hints, !.vstem3List = v.hintsStem3],
      dict |-> [pointTag |-> self.pointName, stems |-> h.stems \o v.stems]]

\* ------------------------------------------ hint masks of bounded groups
\* Most hints of one group of an input hint mask.
MaxHints == 23

\* n hints in the order of the stream: with rising positions, with falling
\* positions, or at two positions in turn with falling widths.
InputHints(n, order) ==
  [i \in 1..n |->
     IF order = "rising" THEN <<10 * i, 5>>
     ELSE IF order = "falling" THEN <<10 * (n - i), 5>>
     ELSE <<100 * (i % 2), 5 + n - i>>]

\* The stem3 hints whose first stems are the given hints.
InputStem3(hintList) ==
  [i \in 1..Len(hintList) |->
     <<hintList[i], <<hintList[i][1] + 20, hintList[i][2]>>,
       <<hintList[i][1] + 40, hintList[i][2]>>>>]

HintInit ==
  /\ FontIdle /\ DecodingIdle /\ GlifIdle /\ CodecIdle /\ ComponentsIdle /\ TransformsIdle
  /\ newHintSetDict = NoneObj
  /\ \E nh \in 0..MaxHints, order \in {"rising", "falling", "tied"},
        nh3 \in {0, 1, 8, MaxHints}, order3 \in {"falling", "tied"},
        nv \in {0, 2, MaxHints}, nv3 \in {0, 1, 8} :
       curHintMask =
         [HintMask(0) EXCEPT
            !.hList = InputHints(nh, order),
            !.hstem3List = InputStem3(InputHints(nh3, order3)),
            !.vList = InputHints(nv, "falling"),
            !.vstem3List = InputStem3(InputHints(nv3, "tied"))]

\* for hintMask in hintMaskList: hintMask.addHintSet(hintSetListArray)
AddHintSet ==
  /\ newHintSetDict = NoneObj
  /\ LET done == addHintSet(curHintMask)
     IN curHintMask' = done.self /\ newHintSetDict' = done.dict
  /\ UNCHANGED <<font, decoding, glif, codec, components, transforms>>

HintNext == AddHintSet

HintSpec == HintInit /\ [][HintNext]_vars

\* --------------------------------- convertBezToOutline, operator by operator
\* The hintsets array of the hint record: one dict per hint mask.
RECURSIVE hintSetListArray(_)
hintSetListArray(hintMaskList) ==
  IF hintMaskList = <<>> THEN <<>>
  ELSE << addHintSet(Head(hintMaskList)).dict >> \o hintSetListArray(Tail(hintMaskList))

\* The end of convertBezToOutline, after the loop: the open contour is closed
\* and the hint record is built when hints or flex were seen.
bezReturn(st) ==
  [newOutline |-> IF st.open THEN closeContour(st.contours, st.opList)
                  ELSE st.contours,
   hintInfoDict |-> IF st.seenHints \/ Len(st.flexList) > 0
                      THEN [hintSetList |-> hintSetListArray(st.hintMaskList),
                            flexList |-> st.flexList]
                    ELSE NoneObj]

\* Most operators of a stream that is read operator by operator.
MaxBezOps == 5

\* The operators of such a stream, each with its arguments: a contour from
\* (0,0) that a line or a curve may close, hints and counter hints, a new
\* hint mask, and a flex.
BezOps ==
  {bezOp(<<0, 0>>, "mt"), bezOp(<<10, 0>>, "rmt"),
   bezOp(<<10, 0>>, "dt"), bezOp(<<0, 0>>, "dt"),
   bezOp(<<10, 0, 10, 10, 0, 0>>, "ct"), bezOp(<<>>, "cp"),
   bezOp(<<>>, "snc"), bezOp(<<0, 10>>, "rb"),
   bezOp(<<0, 10>>, "rm"), bezOp(<<5, 20>>, "rv"),
   bezOp(<<>>, "preflx1"),
   bezOp(<<10, 0, 20, 0, 30, 0, 40, 0, 50, 0, 60, 0>>, "flxa")}

\* The locals before the loop; the stream has at least one token.
DecoderInit ==
  /\ FontIdle /\ GlifIdle /\ CodecIdle /\ ComponentsIdle /\ HintsIdle /\ TransformsIdle
  /\ bezLocals = bezStart /\ bezRead = <<>> /\ bezReturned = NoneObj

\* for token in bezList: the numbers of one operator, then the operator
ReadOperator(o) ==
  /\ bezReturned = NoneObj /\ bezLocals.raised = PyNone
  /\ Len(bezRead) < MaxBezOps
  /\ bezLocals' = bezLoop(bezLocals, o)
  /\ bezRead' = Append(bezRead, o[Len(o)][2])
  /\ UNCHANGED <<font, glif, codec, components, hinting, transforms, bezReturned>>

\* The stream has ended: return newOutline, hintInfoDict
EndOfStream ==
  /\ bezReturned = NoneObj /\ bezLocals.raised = PyNone
  /\ bezRead # <<>>
  /\ bezReturned' = bezReturn(bezLocals)
  /\ UNCHANGED <<font, glif, codec, components, hinting, transforms, bezLocals, bezRead>>

DecoderNext == (\E o \in BezOps : ReadOperator(o)) \/ EndOfStream

DecoderSpec == DecoderInit /\ [][DecoderNext]_vars

\* ------------------------------- component references run on bounded fonts
\* Longest chain of component references of an input font.
MaxChain == 12

\* A font of the glyphs 0..n in which glyph i refers to glyph i + 1 by a
\* component (after a contour of its own and with an offset, or bare), and
\* glyph n is as last says: contours only, an empty <outline>, no <outline>,
\* or a component that refers back to glyph last.to.
ChainFont(n, decorated, last) ==
  LET attrib == IF decorated THEN [t \in {"xOffset"} |-> 1] ELSE EmptyMap
      own == IF decorated THEN <<Triangle>> ELSE <<>>
  IN [i \in 0..n |->
        IF i < n THEN own \o <<Component(i + 1, attrib)>>
        ELSE IF last.kind = "contours" THEN <<Triangle>>
        ELSE IF last.kind = "empty" THEN <<>>
        ELSE IF last.kind = "none" THEN PyNone
        ELSE own \o <<Component(last.to, attrib)>>]

LastGlyphs(n) ==
  {[kind |-> k, to |-> 0] : k \in {"contours", "empty", "none"}}
    \cup {[kind |-> "cycle", to |-> j] : j \in 0..n}

kWidth == 1000

ComponentInit ==
  /\ FontIdle /\ DecodingIdle /\ GlifIdle /\ HintsIdle /\ TransformsIdle
  /\ bezString = NoneObj /\ newOutline = NoneObj /\ glyphHash = NoneObj
  /\ prevHash = NoneObj /\ lastEdit = <<>>
  /\ \E n \in 0..MaxChain, decorated \in BOOLEAN :
       \E last \in LastGlyphs(n), s \in 0..n :
         /\ glifOutlines = ChainFont(n, decorated, last)
         /\ srcGlyphName = s
         /\ outlineXML = ChainFont(n, decorated, last)[s]

\* newHash, _ = self.buildGlyphHashValue(width, outlineXML, glyphName, True)
HashGlyph ==
  /\ glyphHash = NoneObj
  /\ glyphHash' = buildGlyphHashValue(kWidth, outlineXML, glifOutlines, 0,
                                      << <<"w">> \o str(kWidth) >>)
  /\ UNCHANGED <<font, decoding, glif, codec, hinting, transforms, glifOutlines, srcGlyphName,
                 prevHash, lastEdit>>

ComponentNext == Encode \/ HashGlyph

ComponentSpec == ComponentInit /\ [][ComponentNext]_vars

\* --------------------------------- transforms down a chain of components
\* Most components entered one inside the other.
MaxNesting == 3

\* The transform attributes of the input components: none, the default
\* values written out, offsets only, scales with and without offsets, and
\* the mirror and the half turn, which are their own inverses.
InputAttribs ==
  LET attrib(tags, values) == [t \in tags |-> values[t]]
      all == [xScale |-> 2, xyScale |-> 1, yxScale |-> -1, yScale |-> 3,
              xOffset |-> 5, yOffset |-> -7]
  IN {EmptyMap,
      [xScale |-> 1, yScale |-> 1, xOffset |-> 0],
      attrib({"xOffset"}, all), attrib({"xOffset", "yOffset"}, all),
      attrib({"xScale"}, all), attrib({"xyScale", "yOffset"}, all),
      attrib({"yxScale", "yScale"}, all), all,
      [xScale |-> -1], [xScale |-> -1, yScale |-> -1, yOffset |-> 4]}

\* The transform given to the call for the outermost outline: None, as
\* convertGLIFToBez gives it, or a transform object of any of the three kinds
\* that concat tells apart.
TransformInit ==
  /\ FontIdle /\ DecodingIdle /\ GlifIdle /\ CodecIdle /\ ComponentsIdle /\ HintsIdle
  /\ prevTransform = NoneObj /\ ownTransform = NoneObj /\ nesting = 0
  /\ curTransform \in {NoneObj} \cup {UFOTransform(attrib) : attrib \in InputAttribs}

\* if outlineItem.tag == "component": newTransform = UFOTransform(outlineItem),
\* concat with the inherited transform, and the call for the component's
\* outline with newTransform at level + 1.
EnterComponent(attrib) ==
  /\ nesting < MaxNesting
  /\ ownTransform' = UFOTransform(attrib)
  /\ prevTransform' = curTransform
  /\ curTransform' = componentTransform(attrib, curTransform)
  /\ nesting' = nesting + 1
  /\ UNCHANGED <<font, decoding, glif, codec, components, hinting>>

TransformNext == \E attrib \in InputAttribs : EnterComponent(attrib)

TransformSpec == TransformInit /\ [][TransformNext]_vars

\* ------------------------------------------- hashing a glyph that is edited
\* Most points of the contour of an input glyph, and most edits of its source.
MaxHashPoints == 41
MaxEdits == 2

\* The font of glyph 0, which is hashed, and glyph 1, the triangle that
\* glyph 0 may refer to.  Glyph 0 has a contour of n line points at (0, 0),
\* the first k of them at (10, 0) instead: its points make 3 * n + k
\* characters of hash data.
HashFont(n, k, withComponent) ==
  LET LongContour ==
        Contour([i \in 1..n |-> Point(IF i <= k THEN <<10, 0>> ELSE <<0, 0>>, "line")])
  IN [g \in 0..1 |->
        IF g = 1 THEN <<Triangle>>
        ELSE <<LongContour>>
               \o (IF withComponent THEN <<Component(1, [t \in {"xOffset"} |-> 1])>>
                   ELSE <<>>)]

HashInit ==
  /\ FontIdle /\ DecodingIdle /\ GlifIdle /\ HintsIdle /\ TransformsIdle
  /\ bezString = NoneObj /\ newOutline = NoneObj /\ glyphHash = NoneObj
  /\ prevHash = NoneObj /\ lastEdit = <<>>
  /\ srcGlyphName = 0
  /\ \E n \in {2, MaxHashPoints - 1, MaxHashPoints}, k \in 0..4,
        withComponent \in BOOLEAN :
       /\ k <= n
       /\ glifOutlines = HashFont(n, k, withComponent)
       /\ outlineXML = HashFont(n, k, withComponent)[0]

\* The edits of the source glyph between two runs: none; a name on the first
\* point; one more contour, of a single point (once); other coordinates for
\* one of the first two points; another kind for the first point.
InputEdits ==
  {<<"none">>, <<"name">>, <<"lonePoint">>}
    \cup {<<"coords", i, xy>> : i \in 1..2, xy \in {<<0, 0>>, <<10, 0>>, <<1, 23>>, <<12, 3>>}}
    \cup {<<"kind", 1, k>> : k \in PointKinds}

\* The source glyph is edited after a run that hashed it, and the next run
\* hashes it again.  The first item of an input outline is its contour of 2
\* points or more.
EditGlyph(edit) ==
  LET p == outlineXML[1].points
      q == IF edit[1] = "name"
             THEN [p EXCEPT ![1] = [x |-> p[1].x, y |-> p[1].y, type |-> p[1].type,
                                     name |-> "hintSet0000"]]
           ELSE IF edit[1] = "coords"
             THEN [p EXCEPT ![edit[2]].x = edit[3][1], ![edit[2]].y = edit[3][2]]
           ELSE IF edit[1] = "kind" THEN [p EXCEPT ![edit[2]].type = edit[3]]
           ELSE p
      lone == Contour(<<Point(<<7, 7>>, "move")>>)
      edited ==
        IF edit[1] = "lonePoint"
          THEN IF outlineXML[Len(outlineXML)] = lone THEN outlineXML
               ELSE Append(outlineXML, lone)
        ELSE [outlineXML EXCEPT ![1].points = q]
  IN /\ glyphHash # NoneObj
     /\ Len(lastEdit) < MaxEdits
     /\ edit[1] # "none" => edited # outlineXML
     /\ outlineXML' = edited
     /\ glifOutlines' = [glifOutlines EXCEPT ![srcGlyphName] = edited]
     /\ prevHash' = glyphHash
     /\ glyphHash' = NoneObj
     /\ lastEdit' = Append(lastEdit, edit)
     /\ UNCHANGED <<font, decoding, glif, hinting, transforms, bezString, newOutline, srcGlyphName>>

HashNext == HashGlyph \/ \E edit \in InputEdits : EditGlyph(edit)

HashSpec == HashInit /\ [][HashNext]_vars

\* =================================================================== claims
\* checkSkipGlyph was the last operation's skip check, it ran with the cache
\* enabled and it returned.
Checked ==
  /\ useHashMap
  /\ ret.op = "convertToBez"
  /\ ret.raised = PyNone

\* The entry of the checked glyph before the call had the new hash.
SameHash == ret.pre.srcHash = ret.newSrcHash
\* The program was in the history before the call.
WasInHistory == inList(kAutohintName, ret.pre.historyList)
\* The entry of the checked glyph now.
EntryNow == hashMap[ret.glyphName]
\* The hash map checkSkipGlyph's lookup runs on: the one in memory, or the one
\* read from the file when none is in memory.
MapSeen == IF Cardinality(DOMAIN hashMap) = 0 THEN readHashMap.hashMap ELSE hashMap
\* A step of checkSkipGlyph (through convertToBez) that returned.
CheckStep(g, d) == convertToBez(g, d) /\ useHashMap /\ ret'.raised = PyNone

\* C1: with the cache enabled, a glyph without entry is never skipped, under
\* either layer policy and either doAll, and its entry becomes
\* (newSrcHash, [autohint]).
C1_AbsentEntry ==
  (Checked /\ ~ret.pre.present) =>
     /\ ~ret.skip
     /\ ret.glyphName \in DOMAIN hashMap
     /\ EntryNow = <<ret.newSrcHash, <<kAutohintName>>>>

C1_Witness ==
  /\ Checked /\ ~ret.pre.present /\ ret.doAll /\ useProcessedLayer
  /\ EntryNow = <<ret.newSrcHash, <<kAutohintName>>>>

\* C2: same hash and program in the history: skip is returned exactly when
\* doAll is false, and the skipping call changes no entry of the hash map,
\* neither hashMapChanged nor deletedGlyph, and no processed-layer file.
C2_SkipResult ==
  (Checked /\ SameHash /\ WasInHistory) => (ret.skip = ~ret.doAll)

C2_SkipFrame ==
  \A g \in RunGlyphs :
    (CheckStep(g, FALSE) /\ ret'.pre.srcHash = ret'.newSrcHash
       /\ inList(kAutohintName, ret'.pre.historyList)) =>
      /\ hashMap' = MapSeen
      /\ UNCHANGED <<hashMapChanged, deletedGlyph, procFiles, procContents,
                     defaultLayer, hashFile>>

C2_SkipWhenInHistory == []C2_SkipResult /\ [][C2_SkipFrame]_vars

C2_Witness ==
  /\ Checked /\ SameHash /\ WasInHistory /\ ret.skip
  /\ "z" \in DOMAIN hashMap
  /\ getGlyphProcessedPath(ret.glyphName) \in procFiles

\* C3: a second consecutive checkSkipGlyph for the same glyph with the same new
\* hash and doAll false returns skip and leaves the glyph's entry as it was.
C3_SecondCallSkips ==
  (Checked /\ ret.repeat /\ ~ret.doAll) =>
     /\ ret.skip
     /\ ret.pre.present
     /\ EntryNow = <<ret.pre.srcHash, ret.pre.historyList>>

C3_Witness ==
  /\ Checked /\ ret.repeat /\ ~ret.doAll /\ ret.skip
  /\ useProcessedLayer /\ requiredHistory # <<>>

C5_Entry ==
  (Checked /\ ~SameHash) =>
     /\ ret.glyphName \in DOMAIN hashMap
     /\ EntryNow = <<ret.newSrcHash, <<kAutohintName>>>>
     /\ hashMapChanged
     /\ getGlyphProcessedPath(ret.glyphName) \notin procFiles

C5_Delete ==
  /\ \A g \in RunGlyphs, d \in BOOLEAN :
       (CheckStep(g, d) /\ ret'.pre.srcHash # ret'.newSrcHash) =>
          IF getGlyphProcessedPath(g) \in procFiles
            THEN /\ procFiles' = procFiles \ {getGlyphProcessedPath(g)}
                 /\ deletedGlyph'
            ELSE UNCHANGED <<procFiles, deletedGlyph>>
  /\ (deletedGlyph' /\ ~deletedGlyph) =>
       \E g \in RunGlyphs, d \in BOOLEAN :
         /\ CheckStep(g, d) /\ ret'.pre.srcHash # ret'.newSrcHash
         /\ getGlyphProcessedPath(g) \in procFiles
         /\ getGlyphProcessedPath(g) \notin procFiles'

C7_Entry ==
  (Checked /\ SameHash /\ useProcessedLayer) =>
     /\ ~WasInHistory =>
          /\ ~ret.skip
          /\ EntryNow = <<ret.pre.srcHash, Append(ret.pre.historyList, kAutohintName)>>
     /\ (WasInHistory /\ ret.doAll) =>
          /\ ~ret.skip
          /\ EntryNow = <<ret.pre.srcHash, ret.pre.historyList>>

C7_Files ==
  \A g \in RunGlyphs, d \in BOOLEAN :
    (CheckStep(g, d) /\ useProcessedLayer /\ ret'.pre.srcHash = ret'.newSrcHash) =>
      UNCHANGED <<procFiles, deletedGlyph>>

C7_AppendHistory == []C7_Entry /\ [][C7_Files]_vars

C7_Witness ==
  /\ Checked /\ SameHash /\ useProcessedLayer /\ ~ret.skip
  /\ ret.pre.historyList = <<kCheckOutlineName>>
  /\ EntryNow[2] = <<kCheckOutlineName, kAutohintName>>
  /\ getGlyphProcessedPath(ret.glyphName) \in procFiles

\* C8: cache disabled: checkSkipGlyph never skips, updateHashEntry has no
\* effect, the cache file is never read (the hash map in memory stays empty and
\* no version error is raised), and hashMap, hashMapChanged, deletedGlyph and
\* the glyph files are left alone by both.
C8_State ==
  ~useHashMap =>
     /\ hashMap = EmptyMap
     /\ ~hashMapChanged
     /\ ~deletedGlyph
     /\ ret.op = "convertToBez" => (~ret.skip /\ ~ret.error /\ ret.raised = PyNone)
     /\ ret.op = "updateFromBez" => ret.raised = PyNone

C8_Files ==
  ~useHashMap =>
    \A g \in RunGlyphs :
      ((\E d \in BOOLEAN : convertToBez(g, d)) \/ (\E h \in Hashes : updateFromBez(g, h)))
         => UNCHANGED <<hashFile, defaultLayer, procFiles, procContents>>

C8_CacheDisabled == []C8_State /\ [][C8_Files]_vars

C8_Witness ==
  /\ ~useHashMap /\ ret.op = "convertToBez" /\ ~ret.doAll
  /\ hashFile.exists /\ getGlyphProcessedPath(ret.glyphName) \in procFiles

\* C9: the fingerprint of a glyph's entry is the one computed from the glyph's
\* file in the default layer at the glyph's last checkSkipGlyph: a check stores
\* (or keeps) exactly that fingerprint, reading the hash map file brings in
\* the file's entries, and no other step (updateHashEntry in particular, which
\* is given the outline decoded from the engine's output) changes a fingerprint.
C9_Step ==
  /\ \A g \in RunGlyphs, d \in BOOLEAN :
       CheckStep(g, d) =>
         /\ g \in DOMAIN hashMap'
         /\ hashMap'[g][1] = defaultLayerHash(g)
  /\ \A k \in (DOMAIN hashMap') \cap Glyphs :
       \/ k \in DOMAIN hashMap /\ hashMap'[k][1] = hashMap[k][1]
       \/ \E d \in BOOLEAN :
            k \in RunGlyphs /\ CheckStep(k, d) /\ hashMap'[k][1] = defaultLayerHash(k)
       \/ /\ \E g \in RunGlyphs, d \in BOOLEAN : CheckStep(g, d)
          /\ hashMap = EmptyMap /\ hashFile.exists
          /\ k \in DOMAIN literal_eval(hashFile.lines)
          /\ hashMap'[k] = literal_eval(hashFile.lines)[k]
  /\ \A g \in RunGlyphs, h \in Hashes :
       updateFromBez(g, h) =>
         \A k \in (DOMAIN hashMap) \cap Glyphs :
           k \in DOMAIN hashMap' /\ hashMap'[k][1] = hashMap[k][1]

C9_SourceFingerprint == [][C9_Step]_vars

C9_Witness ==
  /\ useHashMap /\ ret.op = "updateFromBez" /\ ret.raised = PyNone
  /\ ret.newSrcHash # hashMap[ret.glyphName][1]
  /\ hashMap[ret.glyphName][1] = defaultLayerHash(ret.glyphName)
  /\ ret.pre.historyList # hashMap[ret.glyphName][2]

\* C10: a glyph converted unskipped, updated and saved is skipped by every
\* check (doAll false) of a later font object with the same options and the
\* cache enabled, as long as its file in the default layer is unchanged; the
\* hash map file, once written, holds the version marker and the entries
\* sorted by key, and reads back to the hash map it was written from.
isSorted(lines) ==
  \A i, j \in DOMAIN lines : i < j => NameRank[lines[i][1]] < NameRank[lines[j][1]]

C10_File ==
  ret.wrote =>
    /\ hashFile.exists
    /\ isSorted(hashFile.lines)
    /\ \E i \in DOMAIN hashFile.lines :
         hashFile.lines[i] = <<kAdobHashMapVersionName, kAdobHashMapVersion>>
    /\ readHashMap = [raised |-> FALSE, hashMap |-> hashMap]

C10_Step ==
  \A g \in RunGlyphs :
    (useHashMap /\ stage[g] = "reopened" /\ convertToBez(g, FALSE)) =>
      /\ ret'.raised = PyNone
      /\ ret'.skip
      /\ ~ret'.error
      /\ hashMap'[g] = literal_eval(hashFile.lines)[g]

\* C10 (formula): the file written is well formed, and the reopened font skips.
C10_SkipAfterReopen == []C10_File /\ [][C10_Step]_vars

C10_Witness ==
  /\ useHashMap /\ ret.op = "convertToBez" /\ ~ret.doAll /\ ret.skip
  /\ stage[ret.glyphName] = "reopened"
  /\ Len(hashFile.lines) = 3

\* C11: readHashMap (run by the first check of a font object, on an empty
\* hash map): a file whose major version is greater than the program's raises
\* UFOParseError and leaves the hash map as it was; a file of a smaller major
\* version, a file without version entry and an absent file give, without
\* error, a hash map holding the current version marker and no glyph entry
\* (the check then adds the entry of the glyph it was called for).
storedMap == IF hashFile.exists THEN literal_eval(hashFile.lines) ELSE FreshMap
storedNewer ==
  /\ kAdobHashMapVersionName \in DOMAIN storedMap
  /\ storedMap[kAdobHashMapVersionName][1] > kAdobHashMapVersion[1]
storedOlderOrMissing ==
  \/ ~hashFile.exists
  \/ kAdobHashMapVersionName \notin DOMAIN storedMap
  \/ storedMap[kAdobHashMapVersionName][1] < kAdobHashMapVersion[1]

C11_Step ==
  \A g \in RunGlyphs, d \in BOOLEAN :
    (useHashMap /\ hashMap = EmptyMap /\ convertToBez(g, d)) =>
      /\ storedNewer =>
           /\ ret'.raised = "UFOParseError"
           /\ hashMap' = hashMap
           /\ UNCHANGED <<disk, hashMapChanged, deletedGlyph>>
      /\ storedOlderOrMissing =>
           /\ ret'.raised = PyNone
           /\ ~ret'.pre.present
           /\ DOMAIN hashMap' = {kAdobHashMapVersionName, g}
           /\ hashMap'[kAdobHashMapVersionName] = kAdobHashMapVersion

\* C11 (formula)
C11_ReadHashMapVersions == [][C11_Step]_vars

C11_Witness ==
  /\ useHashMap /\ ret.op = "convertToBez" /\ ret.raised = PyNone
  /\ hashFile.exists
  /\ kAdobHashMapVersionName \in DOMAIN storedMap
  /\ storedMap[kAdobHashMapVersionName][1] < kAdobHashMapVersion[1]
  /\ ret.glyphName \in DOMAIN storedMap
  /\ DOMAIN hashMap = {kAdobHashMapVersionName, ret.glyphName}

\* C12: when the write of a glyph file fails in saveChanges (OSError from the
\* file system, or TypeError from getWriteGlyphPath), the hash map in memory is
\* what it was before the call, entries of the other glyphs included, and with
\* the cache enabled the hash map file holds every entry of it: the file is
\* the complete text of the hash map and reads back to it.
C12_Step ==
  \A f \in BOOLEAN :
    (saveChanges(f) /\ ret'.raised # PyNone) =>
      /\ hashMap' = hashMap
      /\ useHashMap =>
           /\ hashFile'.exists
           /\ hashFile'.lines = formatLines(hashMap)
           /\ literal_eval(hashFile'.lines) = hashMap
           /\ \A g \in Glyphs \ DOMAIN newGlyphMap :
                g \in DOMAIN hashMap => literal_eval(hashFile'.lines)[g] = hashMap[g]

RoundTrip ==
  /\ outlineXML # PyNone
  /\ bezString # NoneObj /\ bezString.raised = PyNone
  /\ newOutline # NoneObj

\* The on-curve points of a contour, in order: <<x, y, kind>>.
onCurve(points) ==
  LET s == SelectSeq(points, LAMBDA p : p.type # "offcurve")
  IN [i \in 1..Len(s) |-> <<s[i].x, s[i].y, s[i].type>>]

rotate(s, k) == [i \in 1..Len(s) |-> s[((i + k - 2) % Len(s)) + 1]]

\* d is the on-curve sequence o up to the decoder's normalisation: o read from
\* some start point, the start point's kind being that of the closing
\* operator (move counts as line), and a last point at the start point's
\* coordinate being dropped, its kind given to the start point.
Normalised(o, d) ==
  \E k \in 1..Len(o) :
    LET r == rotate(o, k)
        n == Len(r)
    IN \/ /\ Len(d) = n
          /\ \A i \in 1..n : d[i][1] = r[i][1] /\ d[i][2] = r[i][2]
          /\ \A i \in 2..n : d[i][3] = r[i][3]
          /\ d[1][3] = IF r[1][3] = "move" THEN "line" ELSE r[1][3]
       \/ /\ n >= 2 /\ Len(d) = n - 1
          /\ r[n][1] = r[1][1] /\ r[n][2] = r[1][2]
          /\ \A i \in 1..(n - 1) : d[i][1] = r[i][1] /\ d[i][2] = r[i][2]
          /\ \A i \in 2..(n - 1) : d[i][3] = r[i][3]
          /\ d[1][3] = r[n][3]

SameOnCurve ==
  /\ newOutline.raised = PyNone
  /\ Len(newOutline.contours) = Len(outlineXML)
  /\ \A i \in 1..Len(outlineXML) :
       Normalised(onCurve(outlineXML[i].points), onCurve(newOutline.contours[i]))

\* The rules of the glif format the round trip rests on: kind move only on the
\* first point of a contour, and every off-curve point one of exactly two that
\* directly precede a curve point (around the contour when it is closed).
WellFormed(points) ==
  LET n == Len(points)
      closed == points[1].type # "move"
      type(i) == IF i \in 1..n THEN points[i].type
                 ELSE IF ~closed THEN "none"
                 ELSE points[((i - 1 + 2 * n) % n) + 1].type
  IN /\ \A i \in 2..n : points[i].type # "move"
     /\ \A i \in 1..n :
          points[i].type = "offcurve" =>
            \/ type(i - 1) # "offcurve" /\ type(i + 1) = "offcurve" /\ type(i + 2) = "curve"
            \/ type(i - 2) # "offcurve" /\ type(i - 1) = "offcurve" /\ type(i + 1) = "curve"

\* C13 as stated: every outline the encoder accepts whose contours have at
\* least 2 points decodes to the same on-curve points, contour by contour.
C13_AsStated ==
  (RoundTrip /\ \A i \in 1..Len(outlineXML) : Len(outlineXML[i].points) >= 2)
    => SameOnCurve

\* C13 (amended): for every outline without components that the encoder
\* accepts, whose contours have at least 2 points and are well formed (move
\* only as first point, off-curve points only as the two control points of a
\* curve), decoding the encoded stream gives, contour by contour, the same
\* on-curve coordinates and kinds up to the decoder's normalisation.
C13_RoundTrip ==
  (RoundTrip /\ \A i \in 1..Len(outlineXML) :
                  Len(outlineXML[i].points) >= 2 /\ WellFormed(outlineXML[i].points))
    => SameOnCurve

C13_Witness ==
  /\ RoundTrip /\ Len(outlineXML) = 2
  /\ \A i \in 1..2 : Len(outlineXML[i].points) >= 2 /\ WellFormed(outlineXML[i].points)
  /\ \E i \in 1..2 :
       /\ outlineXML[i].points[1].type = "offcurve"
       /\ Len(outlineXML[i].points) = 4
       /\ Len(newOutline.contours[i]) = 3
  /\ SameOnCurve

\* The contour of the example: a move point, two control points, a curve point.
ExampleContour ==
  <<Point(<<0, 0>>, "move"), Point(<<10, 0>>, "offcurve"),
    Point(<<10, 10>>, "offcurve"), Point(<<0, 10>>, "curve")>>

ExampleEncoded ==
  /\ bezString.raised = PyNone
  /\ bezString.toks = bezOp(<<0, 0>>, "mt") \o bezOp(<<10, 0, 10, 10, 0, 10>>, "ct")
                        \o bezOp(<<>>, "cp")

\* The example is the outline given to the encoder.
ExampleGiven == outlineXML # PyNone /\ outlineXML = <<Contour(ExampleContour)>>

ExampleDecoded(kinds) ==
  /\ newOutline.raised = PyNone
  /\ Len(newOutline.contours) = 1
  /\ Len(newOutline.contours[1]) = 4
  /\ \A i \in 1..4 :
       /\ newOutline.contours[1][i].x = ExampleContour[i].x
       /\ newOutline.contours[1][i].y = ExampleContour[i].y
       /\ newOutline.contours[1][i].type = kinds[i]

\* C14 as stated: the example decodes to kinds [curve, off, off, curve].
C14_AsStated ==
  ExampleGiven =>
    /\ bezString # NoneObj => ExampleEncoded
    /\ newOutline # NoneObj =>
         ExampleDecoded(<<"curve", "offcurve", "offcurve", "curve">>)

\* C14 (amended): the contour [move(0,0), off(10,0), off(10,10), curve(0,10)]
\* encodes to "0 0 mt", "10 0 10 10 0 10 ct", "cp", and that stream decodes to
\* one contour of the same four points with kinds [line, off, off, curve]: the
\* curve ends at (0,10), not at the start point, so no point is dropped and the
\* first point is retagged to line.
C14_Example ==
  ExampleGiven =>
    /\ bezString # NoneObj => ExampleEncoded
    /\ newOutline # NoneObj =>
         ExampleDecoded(<<"line", "offcurve", "offcurve", "curve">>)

C14_Witness ==
  /\ ExampleGiven
  /\ bezString # NoneObj /\ Len(bezString.toks) = 11
  /\ newOutline # NoneObj /\ Len(newOutline.contours) = 1

\* C15: a contour of exactly one point puts no operator into the stream,
\* whatever the point's kind, and no decoded outline holds a contour of fewer
\* than 2 points.
C15_NoDegenerateContour ==
  /\ (outlineXML # PyNone /\ bezString # NoneObj /\ Len(outlineXML) = 1
        /\ Len(outlineXML[1].points) = 1)
       => bezString.toks = <<>>
  /\ (newOutline # NoneObj /\ newOutline.raised = PyNone)
       => \A i \in 1..Len(newOutline.contours) : Len(newOutline.contours[i]) >= 2

\* C15, encoder: a single line point is written as a move-to and a close-path.
C15_EncoderCase ==
  ~(/\ outlineXML # PyNone /\ bezString # NoneObj
    /\ outlineXML = <<Contour(<<Point(<<0, 0>>, "line")>>)>>
    /\ bezString.toks = bezOp(<<0, 0>>, "mt") \o bezOp(<<>>, "cp"))

\* C15, decoder: a line-to back to the start point leaves a contour of one point.
C15_DecoderCase ==
  ~(/\ outlineXML = PyNone /\ newOutline # NoneObj
    /\ bezString.toks = bezOp(<<0, 0>>, "mt") \o bezOp(<<0, 0>>, "dt") \o bezOp(<<>>, "cp")
    /\ newOutline.raised = PyNone
    /\ Len(newOutline.contours) = 1 /\ Len(newOutline.contours[1]) = 1)


\* ---------------------------------------------------------------------- C16
\* The glyphs of a chain font are 0..lastGlyph; the font has a cycle when the
\* last glyph refers to a glyph again.  The depth of the chain below the
\* glyph that is converted is the number of references that follow one
\* another from it.
lastGlyph == CHOOSE n \in DOMAIN glifOutlines : \A m \in DOMAIN glifOutlines : m <= n
hasCycle ==
  /\ isTrue(glifOutlines[lastGlyph])
  /\ glifOutlines[lastGlyph][Len(glifOutlines[lastGlyph])].tag = "component"
chainDepth == lastGlyph - srcGlyphName
encoded == bezString # NoneObj
hashed == glyphHash # NoneObj
kLevelReason == "In parsing component, exceeded 10 levels of reference"
capRaised(result) == result.raised = "UFOParseError" /\ result.why = kLevelReason

C17_CycleRaises ==
  hasCycle =>
    /\ encoded => capRaised(bezString) /\ bezString.toks = <<>>
    /\ hashed => capRaised(glyphHash) /\ glyphHash.dataList = <<>>

\* A glyph that is not on the cycle but reaches it was encoded and hashed.
C17_Witness ==
  /\ hasCycle
  /\ srcGlyphName < glifOutlines[lastGlyph][Len(glifOutlines[lastGlyph])].base
  /\ encoded /\ capRaised(bezString)
  /\ hashed /\ capRaised(glyphHash)


\* ---------------------------------------------------------------------- C18
\* The group of an axis of a hint mask is its counter (stem3) group when
\* there is one, else its plain group; its serialized entries are those of
\* the stems array with an operator of the axis.
hintLimit == (kStackLimit - 2) \div 2
plainGroup(mask, isH) == IF isH THEN mask.hList ELSE mask.vList
counterGroup(mask, isH) == IF isH THEN mask.hstem3List ELSE mask.vstem3List
axisStems(dict, isH) ==
  SelectSeq(dict.stems,
            LAMBDA e : e.op \in (IF isH THEN {"hstem", "hstem3"} ELSE {"vstem", "vstem3"}))

\* The entries of a group in ascending order of stem position (of the first
\* stem, for a stem3 hint); entries at the same position keep their order.
stableByPosition(list, nested) ==
  LET pos(e) == IF nested THEN e[1][1] ELSE e[1]
      RECURSIVE insertAll(_)
      insertAll(n) ==
        IF n = 0 THEN <<>>
        ELSE LET front == insertAll(n - 1)
                 k == Cardinality({i \in 1..Len(front) : pos(front[i]) <= pos(list[n])})
             IN SubSeq(front, 1, k) \o <<list[n]>> \o SubSeq(front, k + 1, Len(front))
  IN insertAll(Len(list))

firstN(list) == IF Len(list) > hintLimit THEN SubSeq(list, 1, hintLimit) ELSE list

\* The numbers that the entries of a group put on the argument stack.
stackArgs(stems) ==
  LET RECURSIVE count(_)
      count(l) == IF l = <<>> THEN 0 ELSE Len(Head(l).args) + count(Tail(l))
  IN count(stems)

C18_Step ==
  (newHintSetDict = NoneObj /\ newHintSetDict' # NoneObj) =>
    \A isH \in BOOLEAN :
      LET plain == plainGroup(curHintMask, isH)
          counter == counterGroup(curHintMask, isH)
          written == axisStems(newHintSetDict', isH)
      IN /\ written =
              IF counter # <<>>
                THEN makeStemHintList(firstN(stableByPosition(counter, TRUE)), isH)
              ELSE makeHintList(firstN(stableByPosition(plain, FALSE)), isH)
         /\ stackArgs(written) <= kStackLimit

\* C18: for every hint mask and axis, the serialized stem entries are the
\* first min(n, 22) entries of the group after a stable sort by stem position,
\* and no serialized group, plain or counter, has more numbers than the
\* stack-argument budget.
C18_TruncatedGroups == [][C18_Step]_vars


\* The case of a counter group beyond the budget: a serialized stem3 entry
\* with more numbers than kStackLimit.
C18_CounterOverBudget ==
  /\ newHintSetDict # NoneObj
  /\ \E i \in 1..Len(newHintSetDict.stems) :
       Len(newHintSetDict.stems[i].args) > kStackLimit

\* The case of a horizontal counter group that is not serialized: the mask
\* has hstem3 hints only and its stems array is empty.
C18_CounterDropped ==
  /\ newHintSetDict # NoneObj
  /\ curHintMask.hstem3List # <<>>
  /\ newHintSetDict.stems = <<>>
\* ---------------------------------------------------------------------- C19
\* C19: when a serialized hint mask has both a plain and a counter group for
\* an axis, its stems have the counter entry of that axis and no plain entry
\* of that axis.
C19_CounterWins ==
  newHintSetDict # NoneObj =>
    \A isH \in BOOLEAN :
      (plainGroup(curHintMask, isH) # <<>> /\ counterGroup(curHintMask, isH) # <<>>) =>
        /\ \E i \in 1..Len(newHintSetDict.stems) :
             newHintSetDict.stems[i].op = IF isH THEN "hstem3" ELSE "vstem3"
        /\ \A i \in 1..Len(newHintSetDict.stems) :
             newHintSetDict.stems[i].op # IF isH THEN "hstem" ELSE "vstem"

\* A mask with plain and counter groups on both axes was serialized.
C19_Witness ==
  /\ newHintSetDict # NoneObj
  /\ \A isH \in BOOLEAN :
       plainGroup(curHintMask, isH) # <<>> /\ counterGroup(curHintMask, isH) # <<>>
  /\ Len(newHintSetDict.stems) = 2


\* ---------------------------------------------------------------------- C20
\* The points a transform is tried on: three that are not on one line fix an
\* affine map, the fourth is away from the axes.
Points == {<<0, 0>>, <<1, 0>>, <<0, 1>>, <<3, -2>>}
concatCalled == ownTransform # NoneObj /\ prevTransform # NoneObj
childThenParent(own, prev, p) ==
  LET q == apply(own, p[1], p[2]) IN apply(prev, q[1], q[2])

\* C20: after C.concat(P), for the own transform C of a component and the
\* inherited transform P, C.apply(p) is P.apply of the original C.apply(p),
\* whichever branch concat takes (P default, P offset-only, P general).
C20_ChildThenParent ==
  concatCalled =>
    \A p \in Points :
      apply(curTransform, p[1], p[2]) = childThenParent(ownTransform, prevTransform, p)

\* concat took its general branch, with scales on both sides.
C20_Witness ==
  /\ concatCalled
  /\ ~prevTransform.isDefault /\ ~prevTransform.isOffsetOnly
  /\ ~ownTransform.isOffsetOnly
  /\ curTransform = concat(ownTransform, prevTransform)
  /\ \E p \in Points : apply(curTransform, p[1], p[2]) # apply(ownTransform, p[1], p[2])

\* The other two branches: P default, and P offset-only.
C20_DefaultBranch ==
  concatCalled /\ prevTransform.isDefault /\ ~ownTransform.isDefault
C20_OffsetBranch ==
  /\ concatCalled /\ ~prevTransform.isDefault /\ prevTransform.isOffsetOnly
  /\ ~ownTransform.isOffsetOnly


\* ---------------------------------------------------------------------- C21
\* The transform objects of a state, and whether the linear part of one is
\* the identity.
transformObjects == {curTransform, prevTransform, ownTransform} \ {NoneObj}
linearIdentity(t) ==
  /\ t.transformFactors[1] = 1 /\ t.transformFactors[2] = 0
  /\ t.transformFactors[3] = 0 /\ t.transformFactors[4] = 1

\* C21 as stated: after construction and after any sequence of concat calls
\* isOffsetOnly is true if and only if the linear part is the identity.
C21_AsStated ==
  \A t \in transformObjects : t.isOffsetOnly <=> linearIdentity(t)

\* C21 (amended): a transform whose isOffsetOnly is true has the identity as
\* its linear part, after construction and after any sequence of concat
\* calls; after construction alone the converse holds too.  (After concat the
\* flag may be false for a linear part that has become the identity again.)
C21_OffsetOnlyFlag ==
  /\ \A t \in transformObjects : t.isOffsetOnly => linearIdentity(t)
  /\ ownTransform # NoneObj => (linearIdentity(ownTransform) => ownTransform.isOffsetOnly)

\* concat was called with scales on one side at least, and the result has
\* the flag: offsets were added to offsets further up.
C21_Witness ==
  /\ concatCalled /\ nesting > 1
  /\ curTransform.isOffsetOnly /\ ~curTransform.isDefault
  /\ ~prevTransform.isDefault /\ ~ownTransform.isDefault

\* The case of the flag being false for the identity: two mirrors.
C21_IdentityWithoutFlag ==
  /\ concatCalled
  /\ linearIdentity(curTransform) /\ ~curTransform.isOffsetOnly


\* ---------------------------------------------------------------------- C22
\* The operators that convertBezToOutline knows, and the place of the first
\* token of a stream that is neither a number nor one of them (0: none).
kBezOperators ==
  {"mt", "rmt", "dt", "ct", "cp", "sc", "ed", "snc", "rb", "ry", "rm", "rv",
   "preflx1", "preflx2a", "flxa", "div", "beginsubr", "endsubr", "newcolors", "enc"}
unrecognized(toks, i) == toks[i][1] = "op" /\ toks[i][2] \notin kBezOperators
firstUnrecognized(toks) ==
  IF \E i \in 1..Len(toks) : unrecognized(toks, i)
    THEN CHOOSE i \in 1..Len(toks) :
           unrecognized(toks, i) /\ \A j \in 1..(i - 1) : ~unrecognized(toks, j)
  ELSE 0
decoded == newOutline # NoneObj

\* C22 as stated: for every stream with a token that is no number and no
\* known operator, convertBezToOutline raises BezParseError.
C22_AsStated ==
  (decoded /\ firstUnrecognized(bezString.toks) > 0) =>
    newOutline.raised = "BezParseError"

\* C22 (amended): for every stream with a token that is no number and no
\* known operator, convertBezToOutline raises an exception and returns no
\* outline or hint record; the exception is BezParseError, raised at the
\* first such token, when the tokens before it are decoded without error, and
\* otherwise the exception of the earlier token.
C22_UnrecognizedOperator ==
  (decoded /\ firstUnrecognized(bezString.toks) > 0) =>
    LET n == firstUnrecognized(bezString.toks)
        before == bezLoop(bezStart, SubSeq(bezString.toks, 1, n - 1))
    IN /\ newOutline.raised # PyNone
       /\ newOutline.contours = <<>>
       /\ newOutline.raised = IF before.raised = PyNone THEN "BezParseError"
                              ELSE before.raised

\* A stream with a contour under way and then "closepath" was decoded.
C22_Witness ==
  /\ decoded /\ outlineXML = PyNone
  /\ firstUnrecognized(bezString.toks) > 7
  /\ newOutline.raised = "BezParseError"


\* ---------------------------------------------------------------------- C23
\* The glyph was hashed, edited and hashed again; what the last edit was.
rehashed == prevHash # NoneObj /\ glyphHash # NoneObj
lastKind == lastEdit[Len(lastEdit)][1]

\* C23: the fingerprint of a glyph that is hashed again is the same when the
\* source was not changed in between, or when only a point name or a contour
\* of fewer than 2 points was added.
C23_SameFingerprint ==
  (rehashed /\ lastKind \in {"none", "name", "lonePoint"}) =>
    /\ glyphHash.raised = PyNone
    /\ glyphHash.glyph_hash = prevHash.glyph_hash

\* A glyph with a component got a contour of one point and was hashed again.
C23_Witness ==
  /\ rehashed /\ lastKind = "lonePoint"
  /\ Len(outlineXML) = 3
  /\ glyphHash.glyph_hash = prevHash.glyph_hash

\* ---------------------------------------------------------------------- C24
\* The token string of a hashed glyph, and the length of its fingerprint: a
\* sha512 digest has 128 hexadecimal digits.
kDigestLen == 128
tokenString(result) == flatten(result.dataList)
hashLen(h) == IF h.digest THEN kDigestLen ELSE Len(h.text)

\* C24: the fingerprint is the token string itself when that has fewer than
\* 128 characters and the digest of it otherwise (at exactly 128 characters
\* too), so no fingerprint has more than 128 characters.
C24_HashOrDigest ==
  (glyphHash # NoneObj /\ glyphHash.raised = PyNone) =>
    /\ glyphHash.glyph_hash.text = tokenString(glyphHash)
    /\ glyphHash.glyph_hash.digest <=> Len(tokenString(glyphHash)) >= 128
    /\ hashLen(glyphHash.glyph_hash) <= 128

\* A glyph with a token string of exactly 128 characters was hashed.
C24_Witness ==
  /\ glyphHash # NoneObj /\ glyphHash.raised = PyNone
  /\ Len(tokenString(glyphHash)) = 128
  /\ glyphHash.glyph_hash.digest

\* The neighbours of that case: token strings of 127 and of 129 characters.
C24_Below == glyphHash # NoneObj /\ Len(tokenString(glyphHash)) = 127
C24_Above == glyphHash # NoneObj /\ Len(tokenString(glyphHash)) = 129

\* ---------------------------------------------------------------------- C30
\* C30: when the coordinates or the kind of a point of a contour of 2 points
\* or more were changed and both token strings are shorter than 128
\* characters, the fingerprint after the edit differs from the one before.
C30_EditChangesFingerprint ==
  (/\ rehashed /\ lastKind \in {"coords", "kind"}
   /\ ~glyphHash.glyph_hash.digest /\ ~prevHash.glyph_hash.digest) =>
    glyphHash.glyph_hash # prevHash.glyph_hash


\* ------------------------------------------------- claims on the cache's use
\* The entry the hash map file holds for a glyph names the program at a hash.
recordedIn(file, g) ==
  /\ file.exists
  /\ g \in DOMAIN literal_eval(file.lines)
  /\ inList(kAutohintName, literal_eval(file.lines)[g][2])

\* The step puts the program into the persisted history of g, or moves the
\* persisted entry that names it to another hash.
newlyRecorded(g) ==
  /\ recordedIn(hashFile', g)
  /\ ~ /\ recordedIn(hashFile, g)
       /\ literal_eval(hashFile.lines)[g][1] = literal_eval(hashFile'.lines)[g][1]

\* The step is a saveChanges that returns and writes the glif made for g by
\* updateFromBez after an unskipped convertToBez of its present source.
outputAccepted(g) ==
  /\ stage[g] = "updated"
  /\ \E f \in BOOLEAN : saveChanges(f) /\ ret'.raised = PyNone

C25_Step == \A g \in RunGlyphs : newlyRecorded(g) => outputAccepted(g)

\* C25: the hash map file comes to name the program in a glyph's history (at
\* the recorded hash) only in a step that writes the glyph's processed output:
\* a glyph skipped with the required-program error, or whose processing or
\* file write failed after checkSkipGlyph, is not recorded as processed.
C25_RecordedOnlyIfProcessed == [][C25_Step]_vars


\* The entries of the glyphs differ between two hash maps.
entriesDiffer(before, after) ==
  \E g \in Glyphs : lookupEntry(before, g) # lookupEntry(after, g)

\* A returning checkSkipGlyph or updateHashEntry that changes an entry of the
\* hash map it works on leaves hashMapChanged true.
C26_Changes ==
  /\ \A g \in RunGlyphs, d \in BOOLEAN :
       (CheckStep(g, d) /\ entriesDiffer(MapSeen, hashMap')) => hashMapChanged'
  /\ \A g \in RunGlyphs, h \in Hashes :
       (updateFromBez(g, h) /\ entriesDiffer(hashMap, hashMap')) => hashMapChanged'

\* saveChanges and close write the hash map when the flag is set, leave the
\* file alone when it is not, and leave the flag false.
C26_Writes ==
  (close \/ \E f \in BOOLEAN : saveChanges(f)) =>
     /\ ~hashMapChanged'
     /\ hashMapChanged =>
          /\ hashFile'.exists
          /\ hashFile'.lines = formatLines(hashMap)
          /\ literal_eval(hashFile'.lines) = hashMap
     /\ ~hashMapChanged => hashFile' = hashFile

\* C26: whenever checkSkipGlyph or updateHashEntry changes a cache entry, the
\* in-place append of the program under the prefer-processed policy included,
\* hashMapChanged is true afterwards; saveChanges and close write the cache
\* exactly when the flag is set and leave it false.
C26_DirtyFlag == [][C26_Changes /\ C26_Writes]_vars


\* The name getOrSkipGlyphXML looks for in the processed layer.
processedFileName(g) ==
  IF g \in DOMAIN processedLayerGlyphMap.map
    THEN processedLayerGlyphMap.map[g] ELSE glyphMap[g]

\* A getOrSkipGlyphXML (through convertToBez) that returned.
ReadStep(g, d) == convertToBez(g, d) /\ ret'.raised = PyNone

\* The processed layer is read only under useProcessedLayer and when the
\* glyph's file is in it after the skip check; else the default layer is read.
C27_Layer ==
  \A g \in RunGlyphs, d \in BOOLEAN :
    ReadStep(g, d) =>
      /\ ret'.layer \in {kProcessedGlyphsLayer, kDefaultGlyphsLayer}
      /\ ret'.layer = kProcessedGlyphsLayer =>
           useProcessedLayer /\ processedFileName(g) \in procFiles'

\* When the source hash differs from the stored one, the glyph's file is gone
\* from the processed layer and the default layer is read.
C27_Stale ==
  \A g \in RunGlyphs, d \in BOOLEAN :
    (ReadStep(g, d) /\ useHashMap /\ ret'.pre.srcHash # ret'.newSrcHash) =>
      /\ processedFileName(g) \notin procFiles'
      /\ ret'.layer = kDefaultGlyphsLayer

\* C27: getOrSkipGlyphXML returns the processed layer's outline only when
\* useProcessedLayer is true and the glyph's processed-layer file exists after
\* the skip check, and the default layer's otherwise; when the source hash
\* differs from the stored hash the stale processed-layer file is deleted
\* first, so the outline returned is the default layer's.
C27_LayerRead == [][C27_Layer /\ C27_Stale]_vars


\* A step of one of the font object's operations.
Operation ==
  \/ \E g \in RunGlyphs, d \in BOOLEAN : convertToBez(g, d)
  \/ \E g \in RunGlyphs, h \in Hashes : updateFromBez(g, h)
  \/ \E f \in BOOLEAN : saveChanges(f)
  \/ close

\* A saveChanges that returned.
Saved ==
  /\ ret'.op = "saveChanges" /\ ret'.raised = PyNone
  /\ \E f \in BOOLEAN : saveChanges(f)

\* write_to_default_layer not set: the operations leave every glyph file of
\* the default layer as it is, the altered glyphs go to the processed layer,
\* and files leave the processed layer only through checkSkipGlyph.
C28_NotSet ==
  ~writeToDefaultLayer =>
     /\ defaultLayer' # defaultLayer => ~Operation
     /\ Saved => \A g \in DOMAIN newGlyphMap : getWriteGlyphPath(g) \in procFiles'
     /\ (~(procFiles \subseteq procFiles') /\ Operation) =>
          \E g \in RunGlyphs, d \in BOOLEAN :
            /\ CheckStep(g, d)
            /\ procFiles' = procFiles \ {getGlyphProcessedPath(g)}

\* write_to_default_layer set: every altered glyph goes to the default layer
\* and none to the processed layer.
C28_Set ==
  (writeToDefaultLayer /\ Saved) =>
     /\ \A g \in DOMAIN newGlyphMap : defaultLayer'[glyphMap[g]] = newGlyphMap[g]
     /\ \A f \in FileNames :
          defaultLayer'[f] # defaultLayer[f] =>
            \E g \in DOMAIN newGlyphMap : glyphMap[g] = f
     /\ UNCHANGED <<procFiles, procContents>>

options == [useHashMap |-> useHashMap, useProcessedLayer |-> useProcessedLayer,
            writeToDefaultLayer |-> writeToDefaultLayer,
            requiredHistory |-> requiredHistory]

fingerprint(outline) ==
  buildGlyphHashValue(kWidth, outline, EmptyMap, 0, << <<"w">> \o str(kWidth) >>).glyph_hash

\* The <outline> convertBezToGLIF puts in place of the glyph's own.
RECURSIVE asOutline(_)
asOutline(contours) ==
  IF contours = <<>> THEN <<>>
  ELSE <<Contour(Head(contours))>> \o asOutline(Tail(contours))

writtenOutline == asOutline(newOutline.contours)

\* The outline was encoded and the stream, unchanged, decoded without error.
WrittenBack == RoundTrip /\ newOutline.raised = PyNone

decoderForm(points) ==
  /\ WellFormed(points)
  /\ points[1].type \in {"line", "curve"}
  /\ ~ /\ points[1].type = "line"
       /\ points[Len(points)].x = points[1].x
       /\ points[Len(points)].y = points[1].y

SourceInDecoderForm ==
  \A i \in 1..Len(outlineXML) :
    Len(outlineXML[i].points) >= 2 => decoderForm(outlineXML[i].points)

RECURSIVE operatorsOf(_, _)
operatorsOf(toks, args) ==
  IF toks = <<>> THEN <<>>
  ELSE IF Head(toks)[1] = "num"
    THEN operatorsOf(Tail(toks), Append(args, Head(toks)[2]))
  ELSE << [op |-> Head(toks)[2], args |-> args] >> \o operatorsOf(Tail(toks), <<>>)

\* The operators cut after every "cp": one piece per close-path marker, the
\* marker left out, and a last piece of what follows the last marker.
RECURSIVE piecesOf(_, _)
piecesOf(ops, piece) ==
  IF ops = <<>> THEN << piece >>
  ELSE IF Head(ops).op = "cp" THEN << piece >> \o piecesOf(Tail(ops), <<>>)
  ELSE piecesOf(Tail(ops), Append(piece, Head(ops)))

\* The contours that put operators into the stream: all but the empty ones
\* and those of a single move point.
RECURSIVE emitting(_)
emitting(outline) ==
  IF outline = <<>> THEN <<>>
  ELSE LET pts == Head(outline).points
       IN IF Len(pts) = 0 \/ (Len(pts) = 1 /\ pts[1].type = "move")
            THEN emitting(Tail(outline))
          ELSE << pts >> \o emitting(Tail(outline))

Encoded == outlineXML # PyNone /\ bezString # NoneObj /\ bezString.raised = PyNone
encodedPieces == piecesOf(operatorsOf(bezString.toks, <<>>), <<>>)

\* The operator name and end point of each operator of a piece.
RECURSIVE opEnds(_)
opEnds(piece) ==
  IF piece = <<>> THEN <<>>
  ELSE LET a == Head(piece).args
       IN << <<Head(piece).op, a[Len(a) - 1], a[Len(a)]>> >> \o opEnds(Tail(piece))

opName(type) == IF type = "move" THEN "mt" ELSE IF type = "line" THEN "dt" ELSE "ct"

\* The operator name and end point expected of each on-curve point.
RECURSIVE onCurveOps(_)
onCurveOps(points) ==
  IF points = <<>> THEN <<>>
  ELSE IF Head(points).type = "offcurve" THEN onCurveOps(Tail(points))
  ELSE << <<opName(Head(points).type), Head(points).x, Head(points).y>> >>
         \o onCurveOps(Tail(points))

startsOnCurve(points) == points[1].type \in {"line", "curve"}

\* C31 as stated: the contour's piece is the move-to at the first point, the
\* remaining points in order, and the first point again as last operator.
C31_AsStated ==
  Encoded =>
    \A k \in 1..Len(emitting(outlineXML)) :
      LET points == emitting(outlineXML)[k]
      IN startsOnCurve(points) =>
           opEnds(encodedPieces[k]) =
             << <<"mt", points[1].x, points[1].y>> >>
               \o onCurveOps(Tail(points)) \o onCurveOps(<<points[1]>>)

\* C31 (amended): for a contour whose first point has kind line or curve,
\* encode emits a move-to at that point's coordinate, then the remaining
\* points in their order; a first point of kind curve is emitted last, as the
\* end point of the final curve-to, while a first point of kind line is not
\* emitted again: the close-path marker follows the last remaining point.
C31_FirstOnCurve ==
  Encoded =>
    \A k \in 1..Len(emitting(outlineXML)) :
      LET points == emitting(outlineXML)[k]
      IN startsOnCurve(points) =>
           opEnds(encodedPieces[k]) =
             << <<"mt", points[1].x, points[1].y>> >>
               \o onCurveOps(Tail(points))
               \o (IF points[1].type = "curve" THEN onCurveOps(<<points[1]>>) ELSE <<>>)

C31_Witness ==
  /\ Encoded /\ Len(outlineXML) = 2 /\ Len(encodedPieces) = 3
  /\ \E k \in 1..2 :
       /\ emitting(outlineXML)[k][1].type = "curve"
       /\ Len(emitting(outlineXML)[k]) = 4
       /\ Len(encodedPieces[k]) = 3
       /\ encodedPieces[k][3].op = "ct"
  /\ emitting(outlineXML)[1][1].type = "line"


startsOffCurve(points) == Len(points) > 0 /\ points[1].type = "offcurve"
lastOf(points) == points[Len(points)]

\* The contours that start off-curve and end in a line or curve point start
\* the piece at the last point, which is dropped when it is a line point.
OffCurveStartAtLast ==
  Encoded =>
    \A k \in 1..Len(emitting(outlineXML)) :
      LET points == emitting(outlineXML)[k]
      IN (startsOffCurve(points) /\ lastOf(points).type \in {"line", "curve"}) =>
           opEnds(encodedPieces[k]) =
             << <<"mt", lastOf(points).x, lastOf(points).y>> >>
               \o onCurveOps(IF lastOf(points).type = "line"
                               THEN SubSeq(points, 1, Len(points) - 1) ELSE points)

\* C32: a contour whose first point is off-curve starts at its last point when
\* that has kind line (which is then dropped) or curve (which is kept); with
\* any other kind of last point encode raises UFOParseError and there is no
\* stream for the glyph.
C32_OtherLastKindRaises ==
  /\ OffCurveStartAtLast
  /\ (outlineXML # PyNone /\ bezString # NoneObj) =>
       \A i \in 1..Len(outlineXML) :
         (/\ startsOffCurve(outlineXML[i].points)
          /\ lastOf(outlineXML[i].points).type \notin {"line", "curve"})
           => bezString.raised = "UFOParseError" /\ bezString.toks = <<>>


\* The points the encoder's loop runs over, after the set-up of the contour.
loopPoints(points) ==
  IF points[1].type = "line" THEN Tail(points)
  ELSE IF points[1].type = "curve" THEN Append(Tail(points), points[1])
  ELSE IF startsOffCurve(points) /\ lastOf(points).type = "line"
    THEN SubSeq(points, 1, Len(points) - 1)
  ELSE points

\* The move-to of the set-up, if it emits one.
setupOps(points) ==
  IF startsOnCurve(points)
    THEN << [op |-> "mt", args |-> <<points[1].x, points[1].y>>] >>
  ELSE IF startsOffCurve(points) /\ lastOf(points).type \in {"line", "curve"}
    THEN << [op |-> "mt", args |-> <<lastOf(points).x, lastOf(points).y>>] >>
  ELSE <<>>

\* The coordinates buffered when the i-th point of the loop is met: those of
\* the off-curve points since the last line, move or curve point.
RECURSIVE buffered(_, _)
buffered(points, i) ==
  IF i = 1 \/ points[i - 1].type # "offcurve" THEN <<>>
  ELSE buffered(points, i - 1) \o <<points[i - 1].x, points[i - 1].y>>

\* The operators stated for the points from the i-th on.
RECURSIVE statedOps(_, _)
statedOps(points, i) ==
  IF i > Len(points) THEN <<>>
  ELSE IF points[i].type = "offcurve" THEN statedOps(points, i + 1)
  ELSE << [op |-> opName(points[i].type),
           args |-> (IF points[i].type = "curve" THEN buffered(points, i) ELSE <<>>)
                      \o <<points[i].x, points[i].y>>] >>
         \o statedOps(points, i + 1)

curveOffBuffer(points) ==
  \E i \in 1..Len(points) : points[i].type = "curve" /\ Len(buffered(points, i)) # 4

\* C33: a curve point met with exactly 4 buffered coordinates emits one
\* curve-to of 6 arguments and empties the buffer, met with another buffer
\* size it raises UFOParseError; a line or move point emits its operator and
\* empties the buffer; every encoded contour that is not skipped ends with
\* exactly one close-path marker.
C33_PointLoop ==
  (outlineXML # PyNone /\ bezString # NoneObj) =>
    /\ (\E k \in 1..Len(emitting(outlineXML)) :
          /\ emitting(outlineXML)[k][1].type \in {"line", "curve", "move", "offcurve"}
          /\ curveOffBuffer(loopPoints(emitting(outlineXML)[k])))
         => bezString.raised = "UFOParseError"
    /\ bezString.raised = PyNone =>
         /\ Len(encodedPieces) = Len(emitting(outlineXML)) + 1
         /\ encodedPieces[Len(encodedPieces)] = <<>>
         /\ \A k \in 1..Len(emitting(outlineXML)) :
              LET points == emitting(outlineXML)[k]
              IN /\ encodedPieces[k] = setupOps(points) \o statedOps(loopPoints(points), 1)
                 /\ \A j \in 1..Len(encodedPieces[k]) :
                      Len(encodedPieces[k][j].args) =
                        IF encodedPieces[k][j].op = "ct" THEN 6 ELSE 2

C33_Witness ==
  /\ Encoded /\ Len(outlineXML) = 2 /\ Len(encodedPieces) = 3
  /\ \E k \in 1..2 :
       /\ emitting(outlineXML)[k][1].type = "move"
       /\ Len(emitting(outlineXML)[k]) = 4
       /\ Len(encodedPieces[k]) = 2
       /\ encodedPieces[k][2].op = "ct"
       /\ Len(encodedPieces[k][2].args) = 6


\* ---------------------------------------------------------------- C34..C39
\* The operator read by the step, if it reads one.
readsOperator == bezRead' # bezRead
operatorRead == bezRead'[Len(bezRead')]
returns == bezReturned = NoneObj /\ bezReturned' # NoneObj
Returned == bezReturned # NoneObj

\* The step closes the open contour: a move-to outside a flex preamble
\* follows it, or the stream ends.
closesContour ==
  /\ bezLocals.open
  /\ \/ returns
     \/ readsOperator /\ operatorRead \in {"mt", "rmt"} /\ ~bezLocals.inPreFlex

\* The contours that are closed after the step.
closedAfter ==
  IF returns THEN bezReturned'.newOutline
  ELSE SubSeq(bezLocals'.contours, 1, Len(bezLocals'.contours) - 1)

\* The contour as stated, closed.
statedClosed(c) ==
  LET last == c[Len(c)]
  IN IF last.x = c[1].x /\ last.y = c[1].y
       THEN [SubSeq(c, 1, Len(c) - 1) EXCEPT ![1].type = last.type]
     ELSE [c EXCEPT ![1].type = "line"]

noMovePoint(contours) ==
  \A i \in 1..Len(contours) : \A j \in 1..Len(contours[i]) :
    contours[i][j].type # "move"

C34_Step ==
  /\ closesContour =>
       LET n == Len(bezLocals.contours)
           c == bezLocals.contours[n]
       IN Len(c) >= 2 =>
            /\ Len(closedAfter) = n
            /\ closedAfter[n] = statedClosed(c)
            /\ \A i \in 1..(n - 1) : closedAfter[i] = bezLocals.contours[i]
  /\ returns => noMovePoint(bezReturned'.newOutline)

\* C34: when a following move-to or the end of the stream closes a contour of
\* the decoded outline, the last point is removed and the first point takes
\* the last operator's kind if the last operator ends at the first point;
\* otherwise the first point becomes a line point and no point is removed.
\* No point of the returned outline has kind move.
C34_FixStartPoint == [][C34_Step]_vars

C34_Witness ==
  /\ Returned /\ bezRead = <<"cp", "mt", "ct", "mt", "dt">>
  /\ Len(bezReturned.newOutline) = 2
  /\ Len(bezReturned.newOutline[1]) = 3
  /\ bezReturned.newOutline[1][1].type = "curve"
  /\ Len(bezReturned.newOutline[2]) = 2
  /\ bezReturned.newOutline[2][1].type = "line"
  /\ Len(bezLocals.contours[2]) = 2 /\ bezLocals.contours[2][1].type = "move"


\* The points of the returned outline with the given name attribute.
pointsNamed(name) ==
  {ij \in {<<i, j>> : i \in 1..Len(bezReturned.newOutline), j \in 1..(6 * MaxBezOps)} :
     /\ ij[2] <= Len(bezReturned.newOutline[ij[1]])
     /\ name = bezReturned.newOutline[ij[1]][ij[2]].name}

hintRecord == bezReturned.hintInfoDict
yieldsHintRecord == Returned /\ hintRecord # NoneObj

\* The stream ends with an operator that emits a point, so that every mask
\* that became active has a next emitted point.
endsWithPoint == bezRead[Len(bezRead)] \in {"dt", "ct", "flxa"}

\* The mask holds hints.
hasHints(m) ==
  Len(m.hList) + Len(m.vList) + Len(m.hstem3List) + Len(m.vstem3List) > 0

\* C35: for every stream that yields a hint record (and ends with a marking
\* operator), the pointTag of the hint set of every mask that holds hints and
\* every entry of the flex list is the name attribute of exactly one point of
\* the decoded outline, also for counter hints, for mask markers without a
\* point between them and for an anchored move-to contour that is discarded
\* later.
C35_AnchorsArePoints ==
  (yieldsHintRecord /\ endsWithPoint) =>
    /\ \A k \in 1..Len(hintRecord.hintSetList) :
         hasHints(bezLocals.hintMaskList[k]) =>
           Cardinality(pointsNamed(hintRecord.hintSetList[k].pointTag)) = 1
    /\ \A k \in 1..Len(hintRecord.flexList) :
         Cardinality(pointsNamed(hintRecord.flexList[k])) = 1


\* ---------------------------------------------------------------- C36
\* C36: each axis of a hint mask whose plain group or counter group holds
\* hints has at least one entry among the serialized stems; a mask whose only
\* horizontal (vertical) hints are counter groups serializes them.
C36_AxisSerialized ==
  newHintSetDict # NoneObj =>
    \A isH \in BOOLEAN :
      (Len(plainGroup(curHintMask, isH)) > 0 \/ Len(counterGroup(curHintMask, isH)) > 0)
        => Len(axisStems(newHintSetDict, isH)) >= 1


\* ---------------------------------------------------------------- C37
\* The counter accumulator and the counter group of the active mask on an
\* axis ("h" or "v"), and the argument list of a counter operator of the
\* stream: its pair, after the arguments that a move-to skipped inside a flex
\* preamble left over.
accumulator(locals, axis) ==
  IF axis = "h" THEN locals.hStem3Args ELSE locals.vStem3Args
activeGroup(locals, axis) ==
  IF axis = "h" THEN lastMask(locals).hstem3List ELSE lastMask(locals).vstem3List
argsRead ==
  bezLocals.argList \o (IF operatorRead = "rm" THEN <<0, 10>> ELSE <<5, 20>>)

\* A step that reads rm or rv accumulates on the axis given for the operator
\* and closes a counter hint exactly at three pairs.
accumulates(axisOf) ==
  (readsOperator /\ operatorRead \in {"rm", "rv"}) =>
    LET axis == axisOf[operatorRead]
        other == IF axis = "h" THEN "v" ELSE "h"
        args == Append(accumulator(bezLocals, axis), argsRead)
    IN /\ Len(bezLocals'.hintMaskList) = Len(bezLocals.hintMaskList)
       /\ IF Len(args) = 3
            THEN /\ accumulator(bezLocals', axis) = <<>>
                 /\ activeGroup(bezLocals', axis) =
                      Append(activeGroup(bezLocals, axis), args)
            ELSE /\ accumulator(bezLocals', axis) = args
                 /\ activeGroup(bezLocals', axis) = activeGroup(bezLocals, axis)
       /\ accumulator(bezLocals', other) = accumulator(bezLocals, other)
       /\ activeGroup(bezLocals', other) = activeGroup(bezLocals, other)

\* C37 as stated: rm accumulates on the horizontal axis and rv on the
\* vertical one.
C37_AsStated == [][accumulates([rm |-> "h", rv |-> "v"])]_vars

\* C37 (amended): rm appends its (position, width) pair to the vertical
\* counter accumulator and rv to the horizontal one; exactly when three pairs
\* have accumulated on an axis they are closed as one counter-hint set in the
\* active mask's counter group of that axis and the accumulator is emptied.
C37_CounterAxes == [][accumulates([rm |-> "v", rv |-> "h"])]_vars

C37_Witness ==
  /\ bezRead = <<"rm", "rm", "rv", "rm", "rv">>
  /\ Len(activeGroup(bezLocals, "v")) = 1 /\ accumulator(bezLocals, "v") = <<>>
  /\ activeGroup(bezLocals, "v")[1] = <<<<0, 10>>, <<0, 10>>, <<0, 10>>>>
  /\ Len(activeGroup(bezLocals, "h")) = 0
  /\ accumulator(bezLocals, "h") = <<<<5, 20>>, <<5, 20>>>>


\* ---------------------------------------------------------------- C38
openContour(locals) == locals.contours[Len(locals.contours)]
kindsOf(points) == [i \in 1..Len(points) |-> points[i].type]

\* A move-to read between a flex preamble and the flex does nothing to the
\* outline, the pen and the operator index.
moveInPreFlex ==
  (readsOperator /\ operatorRead \in {"mt", "rmt"} /\ bezLocals.inPreFlex) =>
    /\ bezLocals'.contours = bezLocals.contours
    /\ bezLocals'.open = bezLocals.open
    /\ bezLocals'.curX = bezLocals.curX /\ bezLocals'.curY = bezLocals.curY
    /\ bezLocals'.opIndex = bezLocals.opIndex
    /\ bezLocals'.inPreFlex

\* A flex read with its 12 arguments while a contour is open.
flexApplied ==
  (/\ readsOperator /\ operatorRead = "flxa"
   /\ bezLocals.argList = <<>> /\ bezLocals.open) =>
    LET before == openContour(bezLocals)
        after == openContour(bezLocals')
        n == Len(before)
        flexPointName == after[n + 1].name
        masks == bezLocals.hintMaskList
    IN /\ bezLocals'.raised = PyNone /\ ~bezLocals'.inPreFlex
       /\ Len(bezLocals'.contours) = Len(bezLocals.contours)
       /\ Len(after) = n + 6 /\ SubSeq(after, 1, n) = before
       /\ kindsOf(SubSeq(after, n + 1, n + 6)) =
            <<"offcurve", "offcurve", "curve", "offcurve", "offcurve", "curve">>
       /\ bezLocals'.opIndex = bezLocals.opIndex + 2
       /\ flexPointName = <<kBaseFlexName, bezLocals.opIndex>>
       /\ \A i \in 2..6 : after[n + i].name = NoName
       /\ bezLocals'.flexList = Append(bezLocals.flexList, flexPointName)
       /\ bezLocals'.newHintMaskName = NoName
       /\ bezLocals'.hintMaskList =
            IF bezLocals.newHintMaskName # NoName
              THEN [masks EXCEPT ![Len(masks)].pointName = flexPointName]
            ELSE masks

\* C38: between a flex preamble marker and the next flex, move-to tokens
\* create no contour and no point and change neither the pen position nor the
\* operator index; a flex with 12 arguments appends 6 points of kinds off,
\* off, curve, off, off, curve to the open contour, advances the operator
\* index by 2, names the first of the 6 points with a flex-point name that it
\* adds to the flex list and, if a hint-mask name was pending, makes the
\* flex-point name that mask's anchor name and clears the pending name.
C38_Flex == [][moveInPreFlex /\ flexApplied]_vars

C38_Witness ==
  /\ bezRead = <<"mt", "preflx1", "rmt", "rb", "flxa">>
  /\ Len(bezLocals.contours) = 1 /\ Len(bezLocals.contours[1]) = 7
  /\ bezLocals.opIndex = 3
  /\ bezLocals.flexList = << <<kBaseFlexName, 1>> >>
  /\ lastMask(bezLocals).pointName = <<kBaseFlexName, 1>>
  /\ bezLocals.newHintMaskName = NoName


\* ---------------------------------------------------------------- C39
positionsOf(masks) == [i \in 1..Len(masks) |-> masks[i].listPos]

\* A new hint mask read before any marking operator replaces the list by the
\* new mask; one read at operator index k > 0 is appended with position k.
newMaskRead ==
  (readsOperator /\ operatorRead = "snc") =>
    LET k == bezLocals.opIndex
    IN /\ bezLocals'.opIndex = k
       /\ bezLocals'.hintMaskList =
            IF k = 0 THEN << HintMask(0) >>
            ELSE Append(bezLocals.hintMaskList, HintMask(k))

\* The mask list is not empty and its positions do not decrease.
masksOrdered(masks) ==
  /\ Len(masks) >= 1
  /\ \A i \in 1..(Len(masks) - 1) : masks[i].listPos <= masks[i + 1].listPos

\* C39: an snc read at operator index 0 replaces the seeded mask of position
\* 0, so that the mask list still has exactly one entry; an snc read at
\* operator index k > 0 appends a new mask with position k; in every state
\* the mask list is non-empty and its positions are in non-decreasing order.
C39_MaskList ==
  [][/\ newMaskRead
     /\ masksOrdered(bezLocals.hintMaskList)
     /\ masksOrdered(bezLocals'.hintMaskList)
     /\ (readsOperator /\ operatorRead = "snc" /\ bezLocals.opIndex = 0)
          => Len(bezLocals'.hintMaskList) = 1]_vars

C39_Witness ==
  /\ bezRead = <<"rb", "snc", "mt", "snc", "snc">>
  /\ positionsOf(bezLocals.hintMaskList) = <<0, 1, 1>>
  /\ bezLocals.hintMaskList[1].hList = <<>>


\* ------------------------------------------------------- convertBezToGLIF
\* An XML element: its tag, its text (a sequence of pieces, <<>> for None)
\* and its children.  The <advance> element has a width attribute as well.
Element(tag, text, children) == [tag |-> tag, text |-> text, children |-> children]

kHintDomainName1 == <<"com.adobe.type.autohint">>
kHintDomainName2 == <<"com.adobe.type.autohint.v2">>

\* childIndex of the last child with the tag after the loop over glifXML,
\* -1 without such a child.
lastChildIndex(children, tag) ==
  LET found == {i \in 1..Len(children) : children[i].tag = tag}
  IN IF found = {} THEN -1 ELSE (CHOOSE i \in found : \A j \in found : j <= i) - 1

\* The dict element convertBezToOutline returns: the id, the hint sets (each
\* abbreviated to its pointTag) and the flex list, if any.
hintInfoElement(hintInfoDict, idText) ==
  LET sets == hintInfoDict.hintSetList
      names == hintInfoDict.flexList
  IN Element("dict", <<>>,
       << Element("key", <<"id">>, <<>>), Element("string", idText, <<>>),
          Element("key", <<"hintSetList">>, <<>>),
          Element("array", <<>>,
                  [i \in 1..Len(sets) |-> Element("dict", sets[i].pointTag, <<>>)]) >>
         \o (IF Len(names) > 0
               THEN << Element("key", <<"flexList">>, <<>>),
                       Element("array", <<>>,
                               [i \in 1..Len(names) |-> Element("string", names[i], <<>>)]) >>
             ELSE <<>>))

\* "Remove any existing hint data": the loop over the copy of the dict's
\* children; removed holds the positions of the children taken out so far.
RECURSIVE removeHintData(_, _, _)
removeHintData(childList, k, removed) ==
  IF k > Len(childList) THEN [raised |-> PyNone, removed |-> removed]
  ELSE IF /\ childList[k].tag = "key"
          /\ childList[k].text \in {kHintDomainName1, kHintDomainName2}
    THEN IF k \in removed THEN [raised |-> "ValueError", removed |-> removed]
         ELSE IF k + 1 > Len(childList)
           THEN [raised |-> "IndexError", removed |-> removed \cup {k}]
         ELSE removeHintData(childList, k + 1, removed \cup {k, k + 1})
  ELSE removeHintData(childList, k + 1, removed)

\* The dict of libItem after the old hint data is removed and the new entry
\* is appended.
addHintInfo(dictChildren, hintInfo) ==
  LET r == removeHintData(dictChildren, 1, {})
      RECURSIVE kept(_)
      kept(k) == IF k > Len(dictChildren) THEN <<>>
                 ELSE (IF k \in r.removed THEN <<>> ELSE <<dictChildren[k]>>) \o kept(k + 1)
  IN [raised |-> r.raised,
      children |-> kept(1) \o << Element("key", kHintDomainName2, <<>>), hintInfo >>]

\* The text put into the id of the hint data: the fingerprint of the new
\* outline ("#" marks a digest).
hashText(width, outline) ==
  LET h == buildGlyphHashValue(width, outline, EmptyMap, 0,
                               << <<"w">> \o str(width) >>).glyph_hash
  IN (IF h.digest THEN <<"#">> ELSE <<>>) \o h.text

\* convertBezToGLIF(ufoFontData, glyphName, bezString, hintsOnly) on the
\* children of the parsed glyph file and on what convertBezToOutline returned:
\* the exception raised, if any, and the children of glifXML afterwards.  (The
\* call of updateHashEntry is part of updateFromBez above.)
convertBezToGLIF(children, returned, hintsOnly) ==
  LET outlineIndex == lastChildIndex(children, "outline")
      libIndex == lastChildIndex(children, "lib")
      newOutlineElement == Element("outline", <<>>, asOutline(returned.newOutline))
      \* glifXML.insert(libIndex, newOutlineElement)
      inserted == SubSeq(children, 1, libIndex) \o <<newOutlineElement>>
                    \o SubSeq(children, libIndex + 1, Len(children))
      placed ==
        IF hintsOnly THEN children
        ELSE IF outlineIndex = -1
          THEN IF libIndex > 0 THEN inserted
               ELSE Append(children, newOutlineElement)
        ELSE [children EXCEPT ![outlineIndex + 1] = newOutlineElement]
      width == IF \E i \in 1..Len(placed) : placed[i].tag = "advance"
                 THEN placed[CHOOSE i \in 1..Len(placed) :
                               /\ placed[i].tag = "advance"
                               /\ \A j \in 1..(i - 1) : placed[j].tag # "advance"].width
               ELSE kWidth
      hintInfo == hintInfoElement(returned.hintInfoDict,
                                  hashText(width, newOutlineElement.children))
      withLib == IF libIndex > 0 THEN placed
                 ELSE Append(placed, Element("lib", <<>>, <<>>))
      libPos == IF libIndex > 0 THEN libIndex + 1 ELSE Len(withLib)
      libItem == withLib[libPos]
      hasDict == \E i \in 1..Len(libItem.children) : libItem.children[i].tag = "dict"
      libChildren == IF hasDict THEN libItem.children
                     ELSE Append(libItem.children, Element("dict", <<>>, <<>>))
      dictPos == CHOOSE i \in 1..Len(libChildren) :
                   /\ libChildren[i].tag = "dict"
                   /\ \A j \in 1..(i - 1) : libChildren[j].tag # "dict"
      added == addHintInfo(libChildren[dictPos].children, hintInfo)
  IN IF returned.hintInfoDict = NoneObj THEN [raised |-> PyNone, children |-> placed]
     ELSE [raised |-> added.raised,
           children |->
             [withLib EXCEPT ![libPos].children =
                [libChildren EXCEPT ![dictPos].children = added.children]]]

\* ----------------------------------------------- glyph files and streams
\* The hint data a glyph file has from an earlier run.
OldHintData == Element("dict", <<>>, << Element("key", <<"id">>, <<>>),
                                        Element("string", <<"old">>, <<>>) >>)

\* The glyph files: <advance>, <outline> and <lib> in every order, each
\* present or not.  The <lib> has no dict, an empty one, one of another entry,
\* or one with hint data of the old domain, of the new domain, or of both
\* around another entry.
InputGlifs ==
  LET advance == [tag |-> "advance", text |-> <<>>, children |-> <<>>, width |-> 500]
      outline == Element("outline", <<>>, <<Triangle>>)
      other == << Element("key", <<"public.markColor">>, <<>>),
                  Element("string", <<"1,0,0,1">>, <<>>) >>
      libs ==
        {Element("lib", <<>>, <<>>)}
          \cup {Element("lib", <<>>, << Element("dict", <<>>, entries) >>) :
                  entries \in {<<>>, other,
                               << Element("key", kHintDomainName1, <<>>), OldHintData >>,
                               << Element("key", kHintDomainName2, <<>>), OldHintData >>,
                               << Element("key", kHintDomainName1, <<>>), OldHintData >>
                                 \o other
                                 \o << Element("key", kHintDomainName2, <<>>), OldHintData >>}}
      orders(lib) ==
        {<<>>, <<advance>>, <<outline>>, <<lib>>,
         <<advance, outline>>, <<outline, advance>>,
         <<advance, lib>>, <<lib, advance>>,
         <<outline, lib>>, <<lib, outline>>,
         <<advance, outline, lib>>, <<advance, lib, outline>>,
         <<outline, advance, lib>>, <<outline, lib, advance>>,
         <<lib, advance, outline>>, <<lib, outline, advance>>}
  IN UNION {orders(lib) : lib \in libs}

\* The streams of the hinting engine: a triangle with a stem hint, with a
\* flex, and without hints.
GlifStreams ==
  {bezOp(<<0, 10>>, "rb") \o bezOp(<<0, 0>>, "mt") \o bezOp(<<10, 0>>, "dt")
     \o bezOp(<<10, 10>>, "dt") \o bezOp(<<>>, "cp"),
   bezOp(<<0, 0>>, "mt") \o bezOp(<<>>, "preflx1") \o bezOp(<<>>, "preflx2a")
     \o bezOp(<<10, 0, 20, 5, 30, 0, 40, 0, 50, 5, 60, 0>>, "flxa")
     \o bezOp(<<60, 10>>, "dt") \o bezOp(<<>>, "cp"),
   bezOp(<<0, 0>>, "mt") \o bezOp(<<10, 0>>, "dt") \o bezOp(<<10, 10>>, "dt")
     \o bezOp(<<>>, "cp")}

GlifInit ==
  /\ FontIdle /\ CodecIdle /\ ComponentsIdle /\ HintsIdle /\ TransformsIdle
  /\ bezLocals = NoneObj /\ bezRead = <<>>
  /\ bezReturned \in {bezReturn(bezLoop(bezStart, s)) : s \in GlifStreams}
  /\ glifFile \in InputGlifs
  /\ glifXML = NoneObj

\* glifXML = convertBezToGLIF(self, glyphName, bezData), with or without
\* hintsOnly
ConvertBezToGLIF(hintsOnly) ==
  /\ glifXML = NoneObj
  /\ glifXML' = convertBezToGLIF(glifFile, bezReturned, hintsOnly)
  /\ UNCHANGED <<font, decoding, codec, components, hinting, transforms, glifFile>>

GlifNext == \E hintsOnly \in BOOLEAN : ConvertBezToGLIF(hintsOnly)

GlifSpec == GlifInit /\ [][GlifNext]_vars


\* ---------------------------------------------------------------- C40
childrenTagged(children, tag) == SelectSeq(children, LAMBDA e : e.tag = tag)
isHintKey(e) == e.tag = "key" /\ e.text \in {kHintDomainName1, kHintDomainName2}

\* The fingerprint of the newly decoded outline, with the width of the file.
newFingerprint ==
  hashText(IF \E i \in 1..Len(glifFile) : glifFile[i].tag = "advance" THEN 500 ELSE kWidth,
           asOutline(bezReturned.newOutline))

\* The dict holds exactly one hint-data entry: the key of the new domain,
\* followed by a dict whose id is the given text; no old hint data is left.
oneHintEntry(dictChildren, idText) ==
  /\ Len(SelectSeq(dictChildren, isHintKey)) = 1
  /\ \E k \in 1..(Len(dictChildren) - 1) :
       /\ isHintKey(dictChildren[k]) /\ dictChildren[k].text = kHintDomainName2
       /\ dictChildren[k + 1].tag = "dict"
       /\ dictChildren[k + 1].children[1].text = <<"id">>
       /\ dictChildren[k + 1].children[2].text = idText
  /\ \A k \in 1..Len(dictChildren) : dictChildren[k] # OldHintData

withHints == glifXML # NoneObj /\ bezReturned.hintInfoDict # NoneObj

\* C40: after convertBezToGLIF on a stream with hints or flex the glyph has
\* exactly one lib element; its dict holds exactly one hint-data entry, of
\* key com.adobe.type.autohint.v2, every earlier entry of either domain being
\* removed with its value; the id of the new entry is the fingerprint of the
\* newly decoded outline.
C40_OneHintEntry ==
  withHints =>
    /\ glifXML.raised = PyNone
    /\ Len(childrenTagged(glifXML.children, "lib")) = 1
    /\ LET libItem == childrenTagged(glifXML.children, "lib")[1]
       IN /\ Len(childrenTagged(libItem.children, "dict")) = 1
          /\ oneHintEntry(childrenTagged(libItem.children, "dict")[1].children,
                          newFingerprint)

====
